---- MODULE Spec2Model ----
(***************************************************************************)
(* A model of the shell output core of pyzo (pyzo/core/shell.py):          *)
(* BaseShell.write and its prompt cursors, ShellWriter.writeText with its  *)
(* tokenizer, carry-over tail, line shortening and SGR interpretation.     *)
(*                                                                         *)
(* The text buffer (a QTextDocument) is a flat sequence of cells; a block  *)
(* separator is a cell whose character is LF.  A cursor is a position      *)
(* 0..Len(buf) (the number of cells before it).                            *)
(***************************************************************************)
EXTENDS Integers, Sequences, FiniteSets, TLC

\* ------------------------------------------------------------ characters
\* A character is a string; the control characters have names.
ESC == "ESC"
BS == "BS"
VT == "VT"
CR == "\r"
LF == "\n"
TAB == "\t"
U2028 == "U2028"

_linebreaks == {LF, U2028, "U2029", "UFDD0", "UFDD1"}

Digits == {"0", "1", "2", "3", "4", "5", "6", "7", "8", "9"}

DigitVal(d) ==
  CASE d = "0" -> 0 [] d = "1" -> 1 [] d = "2" -> 2 [] d = "3" -> 3 [] d = "4" -> 4
    [] d = "5" -> 5 [] d = "6" -> 6 [] d = "7" -> 7 [] d = "8" -> 8 [] d = "9" -> 9

Max(a, b) == IF a >= b THEN a ELSE b
Min(a, b) == IF a <= b THEN a ELSE b

Spaces(n) == [i \in 1..n |-> " "]

\* ------------------------------------------------------------ formats
\* QTextCharFormat, reduced to the properties the writer sets.  A format
\* without a foreground property has fg = "unset".
NoColor == "unset"
Black == "#000000"

COLORS ==
  <<"#657b83", "#dc322f", "#859900", "#b58900", "#268bd2", "#d33682", "#2aa198", "#eee8d5">>

\* QtGui.QTextCharFormat(), with setForeground(QColor(color)) when a color is given
NewFormat(color) ==
  [weight |-> "Normal", italic |-> FALSE, underline |-> FALSE, fg |-> color]

\* format.foreground().color(): the brush of an unset property is QBrush(), black
ForegroundColor(format) == IF format.fg = NoColor THEN Black ELSE format.fg

\* ------------------------------------------------------------ _reSplit
\* "([" + _linebreaks + "\t\x1b]|\v+|\r+|\b+)": line breaks, tab and ESC are
\* tokens of one character, VT, CR and BS form runs, the rest is text.
TokClass(c) ==
  IF c \in _linebreaks THEN "lb"
  ELSE IF c = TAB THEN "tab"
  ELSE IF c = ESC THEN "esc"
  ELSE IF c = VT THEN "vt"
  ELSE IF c = CR THEN "cr"
  ELSE IF c = BS THEN "bs"
  ELSE "txt"

TokenStarts(text) ==
  {i \in 1..Len(text) :
     \/ i = 1
     \/ TokClass(text[i]) # TokClass(text[i - 1])
     \/ TokClass(text[i]) \in {"lb", "tab", "esc"}}

\* [s for s in self._reSplit.split(text2) if s != ""]
reSplit(text) ==
  LET starts == TokenStarts(text)
      n == Cardinality(starts)
      StartOf(k) == CHOOSE i \in starts : Cardinality({j \in starts : j <= i}) = k
      EndOf(k) == IF k = n THEN Len(text) ELSE StartOf(k + 1) - 1
  IN [k \in 1..n |-> SubSeq(text, StartOf(k), EndOf(k))]

\* ------------------------------------------------------------ parseFormat
\* _reFormatPattern = "(\x1b\[(\d+(?:;\d+)*)m)", matched at the start of text.
\* The scan returns the parameters and the length of the match.
RECURSIVE ScanParams(_, _, _, _, _)
ScanParams(text, i, params, cur, hasDigit) ==
  IF i > Len(text) THEN [ok |-> FALSE, params |-> <<>>, matchLen |-> 0]
  ELSE IF text[i] \in Digits
    THEN ScanParams(text, i + 1, params, cur * 10 + DigitVal(text[i]), TRUE)
  ELSE IF text[i] = ";" /\ hasDigit
    THEN ScanParams(text, i + 1, Append(params, cur), 0, FALSE)
  ELSE IF text[i] = "m" /\ hasDigit
    THEN [ok |-> TRUE, params |-> Append(params, cur), matchLen |-> i]
  ELSE [ok |-> FALSE, params |-> <<>>, matchLen |-> 0]

reFormatMatch(text) ==
  IF Len(text) >= 2 /\ text[1] = ESC /\ text[2] = "["
  THEN ScanParams(text, 3, <<>>, 0, FALSE)
  ELSE [ok |-> FALSE, params |-> <<>>, matchLen |-> 0]

\* variant: parameter 0 resets the font weight only
ApplyParamResetWeight(format, param, defaultFormat) ==
  IF param = 0 THEN [format EXCEPT !.weight = "Normal"]
  ELSE IF param = 1 THEN [format EXCEPT !.weight = "Bold"]
  ELSE IF param = 2 THEN [format EXCEPT !.weight = "Light"]
  ELSE IF param = 3 THEN [format EXCEPT !.italic = TRUE]
  ELSE IF param = 4 THEN [format EXCEPT !.underline = TRUE]
  ELSE IF param = 22 THEN [format EXCEPT !.weight = "Normal"]
  ELSE IF param = 23 THEN [format EXCEPT !.italic = FALSE]
  ELSE IF param = 24 THEN [format EXCEPT !.underline = FALSE]
  ELSE IF 30 <= param /\ param <= 37 THEN [format EXCEPT !.fg = COLORS[param - 30 + 1]]
  ELSE IF param = 39 THEN [format EXCEPT !.fg = ForegroundColor(defaultFormat)]
  ELSE format

\* variant: code 39 sets the foreground of a format without one
ApplyParamPlainForeground(format, param, defaultFormat) ==
  IF param = 0 THEN defaultFormat
  ELSE IF param = 1 THEN [format EXCEPT !.weight = "Bold"]
  ELSE IF param = 2 THEN [format EXCEPT !.weight = "Light"]
  ELSE IF param = 3 THEN [format EXCEPT !.italic = TRUE]
  ELSE IF param = 4 THEN [format EXCEPT !.underline = TRUE]
  ELSE IF param = 22 THEN [format EXCEPT !.weight = "Normal"]
  ELSE IF param = 23 THEN [format EXCEPT !.italic = FALSE]
  ELSE IF param = 24 THEN [format EXCEPT !.underline = FALSE]
  ELSE IF 30 <= param /\ param <= 37 THEN [format EXCEPT !.fg = COLORS[param - 30 + 1]]
  ELSE IF param = 39 THEN [format EXCEPT !.fg = Black]
  ELSE format

\* the body of the loop over the parameters
ApplyParam(format, param, defaultFormat) ==
  IF param = 0 THEN defaultFormat
  ELSE IF param = 1 THEN [format EXCEPT !.weight = "Bold"]
  ELSE IF param = 2 THEN [format EXCEPT !.weight = "Light"]
  ELSE IF param = 3 THEN [format EXCEPT !.italic = TRUE]
  ELSE IF param = 4 THEN [format EXCEPT !.underline = TRUE]
  ELSE IF param = 22 THEN [format EXCEPT !.weight = "Normal"]
  ELSE IF param = 23 THEN [format EXCEPT !.italic = FALSE]
  ELSE IF param = 24 THEN [format EXCEPT !.underline = FALSE]
  ELSE IF 30 <= param /\ param <= 37 THEN [format EXCEPT !.fg = COLORS[param - 30 + 1]]
  ELSE IF param = 39 THEN [format EXCEPT !.fg = ForegroundColor(defaultFormat)]
  ELSE format

\* variant: the parameters are applied from the last to the first
RECURSIVE ApplyParamsBackwards(_, _, _, _)
ApplyParamsBackwards(format, params, i, defaultFormat) ==
  IF i > Len(params) THEN format
  ELSE ApplyParam(ApplyParamsBackwards(format, params, i + 1, defaultFormat), params[i],
                  defaultFormat)

RECURSIVE ApplyParams(_, _, _, _)
ApplyParams(format, params, i, defaultFormat) ==
  IF i > Len(params) THEN format
  ELSE ApplyParams(ApplyParam(format, params[i], defaultFormat), params, i + 1, defaultFormat)

\* returns (format, matchLen); ok = FALSE stands for (None, None)
parseFormat(text, currentFormat, defaultFormat) ==
  LET mo == reFormatMatch(text)
  IN IF ~mo.ok THEN [ok |-> FALSE, format |-> currentFormat, matchLen |-> 0]
     ELSE [ok |-> TRUE,
           format |-> ApplyParams(currentFormat, mo.params, 1, defaultFormat),
           matchLen |-> mo.matchLen]

\* ------------------------------------------------------------ the document
\* A document with the shell's three cursors: [buf, c1, c2, lcc, k1, k2].
\* c1, c2, lcc are the positions of _cursor1, _cursor2, _lastCommandCursor;
\* k1, k2 their keepPositionOnInsert flags (that of _lastCommandCursor is
\* set once and stays True).
Cell(ch, format, src) == [ch |-> ch, fmt |-> format, src |-> src]

Cells(s, format, src) == [i \in 1..Len(s) |-> Cell(s[i], format, src)]

\* QTextCursor.positionInBlock() of a cursor at position p
BlockStart(b, p) ==
  LET brk == {k \in 1..p : b[k].ch = LF}
  IN IF brk = {} THEN 0 ELSE CHOOSE k \in brk : \A j \in brk : j <= k

positionInBlock(b, p) == p - BlockStart(b, p)

\* variant: a cursor at the insertion point keeps its position whatever its
\* keepPositionOnInsert flag says (the prompt frame must tell the two apart)
AdjustInsertKeeping(p, keep, pos, n) == IF p <= pos THEN p ELSE p + n

\* Qt moves a cursor right of the insertion point, and one at the insertion
\* point unless it keeps its position on insert.
AdjustInsert(p, keep, pos, n) == IF p < pos \/ (p = pos /\ keep) THEN p ELSE p + n

\* insertion of cells at position pos by some other cursor
DocInsert(D, pos, cells) ==
  LET n == Len(cells)
  IN [D EXCEPT !.buf = SubSeq(D.buf, 1, pos) \o cells \o SubSeq(D.buf, pos + 1, Len(D.buf)),
               !.c1 = AdjustInsert(D.c1, D.k1, pos, n),
               !.c2 = AdjustInsert(D.c2, D.k2, pos, n),
               !.lcc = AdjustInsert(D.lcc, TRUE, pos, n)]

\* Qt moves a cursor inside a removed range to its start
AdjustRemove(p, a, b) == IF p <= a THEN p ELSE IF p <= b THEN a ELSE p - (b - a)

\* removeSelectedText() of the selection between positions a <= b
DocRemove(D, a, b) ==
  [D EXCEPT !.buf = SubSeq(D.buf, 1, a) \o SubSeq(D.buf, b + 1, Len(D.buf)),
            !.c1 = AdjustRemove(D.c1, a, b),
            !.c2 = AdjustRemove(D.c2, a, b),
            !.lcc = AdjustRemove(D.lcc, a, b)]

\* cursor.charFormat(): the format of the character before the cursor
CharFormatAt(b, p) == IF p >= 1 THEN b[p].fmt ELSE NewFormat(NoColor)

\* ------------------------------------------------------------ ShellWriter
\* ShellWriter.__init__; hasFormat = FALSE stands for _currentFormat is None
NewShellWriter ==
  [exists |-> TRUE, hasFormat |-> FALSE, currentFormat |-> NewFormat(NoColor),
   unfinishedTail |-> <<>>, lineShorteningActive |-> FALSE]

\* a stream identifier without an entry in _shellWriters
NoShellWriter == [NewShellWriter EXCEPT !.exists = FALSE]

\* The elements of a line are strings and formats.
StrElem(s) == [k |-> "str", s |-> s, f |-> NewFormat(NoColor)]
FmtElem(f) == [k |-> "fmt", s |-> <<>>, f |-> f]

\* An item of finishedLines: a line [*elems, endPos]; or, after a run of
\* vertical tabs, a bare "\n" or a bare integer (line 874 extends the list
\* by the elements of ["\n", leftLimit + 1] * (n - 1), not by lines).
LineItem(elems, endPos) == [k |-> "line", elems |-> elems, endPos |-> endPos]
BareStrItem == [k |-> "barestr", elems |-> <<>>, endPos |-> 0]
BareIntItem == [k |-> "bareint", elems |-> <<>>, endPos |-> 0]

BareItems(n) == [i \in 1..(2 * n) |-> IF i % 2 = 1 THEN BareStrItem ELSE BareIntItem]

\* the backspace loop over list(enumerate(ll))[::-1]: st = [ll, n, pos]
RECURSIVE TrimBackwards(_, _)
TrimBackwards(st, j) ==
  IF j = 0 THEN st
  ELSE IF st.ll[j].k = "str"
    THEN LET v == st.ll[j].s
             numBackspace == Min(st.n, Len(v))
             st2 == [ll |-> [st.ll EXCEPT ![j] = StrElem(SubSeq(v, 1, Len(v) - numBackspace))],
                     n |-> st.n - numBackspace,
                     pos |-> st.pos - numBackspace]
         IN IF st2.n = 0 THEN st2 ELSE TrimBackwards(st2, j - 1)
  ELSE TrimBackwards(st, j - 1)

\* variant: every text that is not a format counts as an incomplete one
EndsIncompleteAlways(textAndNext) == TRUE

\* "for s2 in ("m", "0m", "[0m")": does the text end in an incomplete format?
EndsIncomplete(textAndNext) ==
  \E s2 \in {<<"m">>, <<"0", "m">>, <<"[", "0", "m">>} : reFormatMatch(textAndNext \o s2).ok

\* The steps of one iteration of "for i, s in enumerate(splitText)" (i counts
\* from 1).  L = [splitText, ll, finishedLines, posInBlock, leftLimit,
\*      lowestPosInFirstBlock, unfinishedTailNew, currentFormat]

\* c in self._linebreaks
LinebreakStep(L) ==
  [L EXCEPT !.finishedLines =
               Append(@, LineItem(Append(L.ll, StrElem(<<LF>>)), L.posInBlock + 1)),
            !.ll = <<>>, !.leftLimit = 0, !.posInBlock = 0]

\* variant: a tab at a multiple of the tab width emits nothing
TabStepStaying(L, numSpaces) ==
  [L EXCEPT !.posInBlock = @ + (numSpaces % 8), !.ll = Append(@, StrElem(Spaces(numSpaces % 8)))]

\* c == "\t", tabwidth = 8
TabStep(L, numSpaces) ==
  [L EXCEPT !.posInBlock = @ + numSpaces, !.ll = Append(@, StrElem(Spaces(numSpaces)))]

\* c == "\v", a run of n
VerticalTabStep(L, n) ==
  [L EXCEPT !.finishedLines =
               Append(@, LineItem(Append(L.ll, StrElem(<<LF>>)), L.posInBlock + 1))
                 \o BareItems(n - 1),
            !.leftLimit = 0,
            !.ll = <<StrElem(Spaces(L.posInBlock))>>]

\* variant: the whole run of carriage returns is carried
CarriageReturnStepCarryingRun(L, i, c) ==
  IF i = Len(L.splitText) THEN [L EXCEPT !.unfinishedTailNew = L.splitText[i]]
  ELSE IF L.splitText[i + 1] = <<LF>> THEN L
  ELSE [L EXCEPT !.ll = <<>>, !.posInBlock = L.leftLimit,
                 !.lowestPosInFirstBlock =
                    IF Len(L.finishedLines) = 0 THEN L.leftLimit ELSE @]

\* c == "\r"
CarriageReturnStep(L, i, c) ==
  IF i = Len(L.splitText) THEN [L EXCEPT !.unfinishedTailNew = <<c>>]
  ELSE IF L.splitText[i + 1] = <<LF>> THEN L
  ELSE [L EXCEPT !.ll = <<>>, !.posInBlock = L.leftLimit,
                 !.lowestPosInFirstBlock =
                    IF Len(L.finishedLines) = 0 THEN L.leftLimit ELSE @]

\* c == "\b": after the loop over ll, "posInBlock = max(leftLimit, posInBlock - n)"
BackspaceTo(L, ll, posInBlock) ==
  [L EXCEPT !.ll = ll, !.posInBlock = posInBlock,
            !.lowestPosInFirstBlock =
               IF Len(L.finishedLines) = 0 /\ posInBlock < @ THEN posInBlock ELSE @]

BackspaceStep(L, st) == BackspaceTo(L, st.ll, Max(L.leftLimit, st.pos - st.n))

\* an element that goes into the line as text
TextStep(L, s) == [L EXCEPT !.ll = Append(@, StrElem(s)), !.posInBlock = @ + Len(s)]

\* c == "\x1b" with a next element: pf is the result of parseFormat
EscapeParsed(L, i, s, textAndNext, pf) ==
  IF pf.ok
  THEN [L EXCEPT !.splitText[i + 1] = SubSeq(@, pf.matchLen, Len(@)),
                 !.ll = Append(@, FmtElem(pf.format)),
                 !.currentFormat = pf.format]
  ELSE [L EXCEPT !.unfinishedTailNew =
                    IF i = Len(L.splitText) - 1 /\ EndsIncomplete(textAndNext)
                    THEN textAndNext ELSE @,
                 !.ll = Append(@, StrElem(s)),
                 !.posInBlock = @ + Len(s)]

EscapeWithNext(L, i, s, textAndNext, defaultFormat) ==
  EscapeParsed(L, i, s, textAndNext, parseFormat(textAndNext, L.currentFormat, defaultFormat))

\* c == "\x1b"
EscapeStep(L, i, s, defaultFormat) ==
  IF i + 1 <= Len(L.splitText)
  THEN EscapeWithNext(L, i, s, s \o L.splitText[i + 1], defaultFormat)
  ELSE [L EXCEPT !.unfinishedTailNew = s,
                 !.ll = Append(@, StrElem(s)),
                 !.posInBlock = @ + Len(s)]

\* the element s with its first character c
TokenStepOf(L, i, s, c, defaultFormat) ==
  IF c = "" THEN L
  ELSE IF c \in _linebreaks THEN LinebreakStep(L)
  ELSE IF c = TAB THEN TabStep(L, 8 - (L.posInBlock % 8))
  ELSE IF c = VT THEN VerticalTabStep(L, Len(s))
  ELSE IF c = CR THEN CarriageReturnStep(L, i, c)
  ELSE IF c = BS THEN
    BackspaceStep(L, TrimBackwards([ll |-> L.ll, n |-> Len(s), pos |-> L.posInBlock],
                                   Len(L.ll)))
  ELSE IF c = ESC THEN EscapeStep(L, i, s, defaultFormat)
  ELSE TextStep(L, s)

FirstChar(s) == IF s = <<>> THEN "" ELSE s[1]

TokenStep(L, i, defaultFormat) ==
  TokenStepOf(L, i, L.splitText[i], FirstChar(L.splitText[i]), defaultFormat)

RECURSIVE TokenLoop(_, _, _)
TokenLoop(L, i, defaultFormat) ==
  IF i > Len(L.splitText) THEN L
  ELSE TokenLoop(TokenStep(L, i, defaultFormat), i + 1, defaultFormat)

\* ------------------------------------------------------------ _shortenLines
shortLineLength == 80

\* variant: line shortening turns on one column earlier
shorteningOnAboveLowered == 1024 - 1

shorteningOnAbove == 1024

\* returns (tillOffset, chunkList, remnant)
_splitStringIntoChunks(s, offset, chunkSize) ==
  LET n == Len(s)
      numChunks == (n - offset) \div chunkSize
  IN [tillOffset |-> SubSeq(s, 1, offset),
      chunkList |-> [i \in 1..numChunks |->
                       SubSeq(s, offset + (i - 1) * chunkSize + 1, offset + i * chunkSize)],
      remnant |-> SubSeq(s, offset + numChunks * chunkSize + 1, n)]

\* the elements of a line with every format put in front of the strings of
\* its row
RECURSIVE ShortenElemsStyleFirst(_, _, _)
ShortenElemsStyleFirst(st, elems, j) ==
  IF j > Len(elems) THEN st
  ELSE LET elem == elems[j] IN
    IF elem.k = "str" THEN
      LET n == Len(elem.s) IN
      IF st.posInBlock + n > shortLineLength THEN
        LET i == shortLineLength - st.posInBlock
            sp == _splitStringIntoChunks(elem.s, i, shortLineLength)
            lineNew == st.lineNew \o <<StrElem(sp.tillOffset), StrElem(<<LF>>)>>
            chunks == [c \in 1..Len(sp.chunkList) |->
                         LineItem(<<StrElem(sp.chunkList[c]), StrElem(<<LF>>)>>,
                                  shortLineLength + 1)]
        IN ShortenElemsStyleFirst(
             [lineNew |-> <<StrElem(sp.remnant)>>,
              posInBlock |-> Len(sp.remnant),
              out |-> Append(st.out,
                             LineItem(lineNew, st.posInBlock + Len(sp.tillOffset) + 1))
                        \o chunks],
             elems, j + 1)
      ELSE ShortenElemsStyleFirst(
             [st EXCEPT !.lineNew = Append(@, elem), !.posInBlock = @ + n], elems, j + 1)
    ELSE ShortenElemsStyleFirst([st EXCEPT !.lineNew = <<elem>> \o @], elems, j + 1)

\* "for elem in line[:-1]" of an active line: st = [lineNew, posInBlock, out]
RECURSIVE ShortenElems(_, _, _)
ShortenElems(st, elems, j) ==
  IF j > Len(elems) THEN st
  ELSE LET elem == elems[j] IN
    IF elem.k = "str" THEN
      LET n == Len(elem.s) IN
      IF st.posInBlock + n > shortLineLength THEN
        LET i == shortLineLength - st.posInBlock
            sp == _splitStringIntoChunks(elem.s, i, shortLineLength)
            lineNew == st.lineNew \o <<StrElem(sp.tillOffset), StrElem(<<LF>>)>>
            chunks == [c \in 1..Len(sp.chunkList) |->
                         LineItem(<<StrElem(sp.chunkList[c]), StrElem(<<LF>>)>>,
                                  shortLineLength + 1)]
        IN ShortenElems(
             [lineNew |-> <<StrElem(sp.remnant)>>,
              posInBlock |-> Len(sp.remnant),
              out |-> Append(st.out,
                             LineItem(lineNew, st.posInBlock + Len(sp.tillOffset) + 1))
                        \o chunks],
             elems, j + 1)
      ELSE ShortenElems([st EXCEPT !.lineNew = Append(@, elem), !.posInBlock = @ + n],
                        elems, j + 1)
    ELSE ShortenElems([st EXCEPT !.lineNew = Append(@, elem)], elems, j + 1)

\* "we also shorten the existing line": the cursor, moved to the start of its
\* row, goes right by shortLineLength and inserts a line break, i times over
RECURSIVE BreakExistingLine(_, _, _, _, _)
BreakExistingLine(D, rowStart, i, multiples, src) ==
  IF i > multiples THEN D
  ELSE LET pos == rowStart + i * shortLineLength + (i - 1)
       IN BreakExistingLine(
            DocInsert(D, pos, <<Cell(LF, CharFormatAt(D.buf, pos), src)>>),
            rowStart, i + 1, multiples, src)

\* The steps of one iteration of "for indLine, line in enumerate(finishedLines)".
\* Sh = [D, cur, posInBlock, out, active, err]

\* variant: a short line turns shortening off even when it is the last of
\* the batch
HysteresisAnyLine(active, lastPosInBlock, indLine, numLines) ==
  IF lastPosInBlock > shorteningOnAbove THEN TRUE
  ELSE IF lastPosInBlock <= shortLineLength + 1 THEN FALSE
  ELSE active

\* "hysteresis for line shortening"
Hysteresis(active, lastPosInBlock, indLine, numLines) ==
  IF lastPosInBlock > shorteningOnAbove THEN TRUE
  ELSE IF lastPosInBlock <= shortLineLength + 1 /\ indLine < numLines THEN FALSE
  ELSE active

\* the end of an active line: st is the result of the loop over its elems
ShortenedLine(D, cur, st, active, err) ==
  [D |-> D, cur |-> cur, posInBlock |-> st.posInBlock,
   out |-> Append(st.out, LineItem(st.lineNew, st.posInBlock)),
   active |-> active, err |-> err]

\* an active line, the cursor at column posInBlock of the row it writes to
ShortenFrom(D, cur, posInBlock, Sh, line, active) ==
  ShortenedLine(D, cur,
                ShortenElems([lineNew |-> <<>>, posInBlock |-> posInBlock, out |-> Sh.out],
                             line.elems, 1),
                active, Sh.err)

\* "if indLine == 0": the existing line is shortened when it is too long
ShortenActive(Sh, line, indLine, active, src) ==
  IF indLine = 1 /\ Sh.posInBlock > shortLineLength
  THEN ShortenFrom(BreakExistingLine(Sh.D, Sh.cur - Sh.posInBlock, 1,
                                     Sh.posInBlock \div shortLineLength, src),
                   Sh.cur + (Sh.posInBlock \div shortLineLength),
                   Sh.posInBlock % shortLineLength, Sh, line, active)
  ELSE ShortenFrom(Sh.D, Sh.cur, IF indLine = 1 THEN Sh.posInBlock ELSE 0, Sh, line, active)

ShortenLine(Sh, line, indLine, active, src) ==
  IF ~active THEN [Sh EXCEPT !.active = active, !.out = Append(@, line)]
  ELSE ShortenActive(Sh, line, indLine, active, src)

ShortenItem(Sh, line, indLine, numLines, src) ==
  IF line.k # "line" THEN
    \* line[-1] of a str is a str, and str > int raises; an int has no [-1]
    [Sh EXCEPT !.err = "TypeError"]
  ELSE ShortenLine(Sh, line, indLine,
                   Hysteresis(Sh.active, line.endPos, indLine, numLines), src)

ShortenStep(Sh, finishedLines, indLine, src) ==
  ShortenItem(Sh, finishedLines[indLine], indLine, Len(finishedLines), src)

RECURSIVE ShortenLoop(_, _, _, _)
ShortenLoop(Sh, finishedLines, indLine, src) ==
  IF indLine > Len(finishedLines) \/ Sh.err # "none" THEN Sh
  ELSE ShortenLoop(ShortenStep(Sh, finishedLines, indLine, src), finishedLines,
                   indLine + 1, src)

\* returns the shortened lines, with the document and the cursor after the
\* breaks put into the existing row, the hysteresis flag, and the exception
_shortenLines(D, cur, active, finishedLines, src) ==
  ShortenLoop([D |-> D, cur |-> cur, posInBlock |-> positionInBlock(D.buf, cur),
               out |-> <<>>, active |-> active, err |-> "none"],
              finishedLines, 1, src)

\* ------------------------------------------------------------ writeText
\* "for line in finishedLines: for elem in line[:-1]": the cells the loop
\* inserts; acc = [cells, format]
RECURSIVE ElemCells(_, _, _, _)
ElemCells(acc, elems, j, src) ==
  IF j > Len(elems) THEN acc
  ELSE IF elems[j].k = "str"
    THEN ElemCells([acc EXCEPT !.cells = @ \o Cells(elems[j].s, acc.format, src)],
                   elems, j + 1, src)
  ELSE ElemCells([acc EXCEPT !.format = elems[j].f], elems, j + 1, src)

RECURSIVE LineCells(_, _, _, _)
LineCells(acc, lines, i, src) ==
  IF i > Len(lines) THEN acc
  ELSE LineCells(ElemCells(acc, lines[i].elems, 1, src), lines, i + 1, src)

None == -1

\* The writing cursor is _cursor1 itself ("c1"), _cursor2 itself ("c2"), or a
\* copy that moves along ("copy": the cursor given keeps its position).
SetWriter(D, role, cur) ==
  IF role = "c1" THEN [D EXCEPT !.c1 = cur]
  ELSE IF role = "c2" THEN [D EXCEPT !.c2 = cur]
  ELSE D

\* ShellWriter.writeText(cursor, leftLimitFirstRow, text, defaultFormat) of the
\* writer W, the cursor at position cur of document D; src tags the cells.
\* Returns the document, the writer, the new left limit, the exception raised
\* ("none" when it returns), the cells it removed and its edits.  The operators below are
\* its parts in the order of the code, each handing its results to the next.

\* The edits of a call, in order: "begin" and "end" for cursor.beginEditBlock()
\* and cursor.endEditBlock(), "remove" for a removal and "insert" for
\* insertions that change the document.  EditBlock is the block of writeText:
\* removal, insertions (the breaks put into the existing row and the text),
\* and the end, which an exception keeps it from reaching.
EditBlock(removedAny, insertedAny, ended) ==
  <<"begin">> \o (IF removedAny THEN <<"remove">> ELSE <<>>)
    \o (IF insertedAny THEN <<"insert">> ELSE <<>>)
    \o (IF ended THEN <<"end">> ELSE <<>>)

\* "write the text with proper formatting to the shell widget"; n is the
\* length of the document after the removal
InsertLines(role, W, L, Sh, removed, cells, n) ==
  [D |-> SetWriter(DocInsert(Sh.D, Sh.cur, cells), role, Sh.cur + Len(cells)),
   W |-> [W EXCEPT !.currentFormat = L.currentFormat],
   newLeftLimit |-> L.leftLimit, err |-> "none", removed |-> removed,
   edits |-> EditBlock(removed # <<>>, Len(Sh.D.buf) + Len(cells) > n, TRUE)]

\* after "finishedLines = self._shortenLines(finishedLines, cursor)"
AfterShorten(role, W, L, Sh, removed, src, n) ==
  IF Sh.err # "none" THEN
    [D |-> SetWriter(Sh.D, role, Sh.cur),
     W |-> [W EXCEPT !.lineShorteningActive = Sh.active],
     newLeftLimit |-> None, err |-> Sh.err, removed |-> removed,
     edits |-> EditBlock(removed # <<>>, Len(Sh.D.buf) > n, FALSE)]
  ELSE
    InsertLines(role, [W EXCEPT !.lineShorteningActive = Sh.active], L, Sh, removed,
                LineCells([cells |-> <<>>, format |-> W.currentFormat], Sh.out, 1, src).cells,
                n)

\* "delete characters from the previous fragment", n of them, then shorten
RemoveAndShorten(D, cur, role, W, L, n, src) ==
  AfterShorten(role, W, L,
               _shortenLines(DocRemove(D, cur - n, cur), cur - n, W.lineShorteningActive,
                             Append(L.finishedLines, LineItem(L.ll, L.posInBlock)), src),
               SubSeq(D.buf, cur - n + 1, cur), src, Len(D.buf) - n)

\* after the loop over splitText: L is what the loop leaves
AfterTokens(D, cur, role, W, col, L, src) ==
  RemoveAndShorten(D, cur, role, [W EXCEPT !.unfinishedTail = L.unfinishedTailNew], L,
                   IF col - L.lowestPosInFirstBlock > 0
                   THEN col - L.lowestPosInFirstBlock ELSE 0,
                   src)

\* the loop over splitText: what it leaves
TokensOf(W, leftLimit, posInBlock, splitText, defaultFormat) ==
  TokenLoop([splitText |-> splitText, ll |-> <<>>, finishedLines |-> <<>>,
             posInBlock |-> posInBlock, leftLimit |-> leftLimit,
             lowestPosInFirstBlock |-> posInBlock,
             unfinishedTailNew |-> <<>>,
             currentFormat |-> W.currentFormat],
            1, defaultFormat)

Tokenize(D, cur, role, W, col, leftLimit, posInBlock, splitText, defaultFormat, src) ==
  AfterTokens(D, cur, role, W, col,
              TokensOf(W, leftLimit, posInBlock, splitText, defaultFormat), src)

\* "if self._unfinishedTail == "\r" and splitText[:1] != ["\n"]"
SplitWithPendingCR(unfinishedTail, split0) ==
  IF unfinishedTail = <<CR>> /\ SubSeq(split0, 1, 1) # << <<LF>> >>
  THEN << <<CR>> >> \o split0 ELSE split0

\* "if self._currentFormat is None: self._currentFormat = defaultFormat"
WithFormat(W, defaultFormat) ==
  IF ~W.hasFormat THEN [W EXCEPT !.hasFormat = TRUE, !.currentFormat = defaultFormat]
  ELSE W

\* "if self._unfinishedTail.startswith("\x1b")": the write position steps
\* left by the length of the tail and the tail is read again with the text
TailPending(W) == W.unfinishedTail # <<>> /\ W.unfinishedTail[1] = ESC

StartColumn(W, col) == IF TailPending(W) THEN Max(0, col - Len(W.unfinishedTail)) ELSE col

\* "splitText = [s for s in self._reSplit.split(text2) if s != ""]"
SplitText(W, text) ==
  SplitWithPendingCR(W.unfinishedTail,
                     reSplit(IF TailPending(W) THEN W.unfinishedTail \o text ELSE text))

WithTail(D, cur, role, W, col, leftLimit, text, defaultFormat, src) ==
  Tokenize(D, cur, role, WithFormat(W, defaultFormat), col, leftLimit, StartColumn(W, col),
           SplitText(W, text), defaultFormat, src)

\* "assert cursor.positionInBlock() >= leftLimitFirstRow"
Asserted(D, cur, role, W, col, leftLimitFirstRow, text, defaultFormat, src) ==
  IF ~(col >= leftLimitFirstRow) THEN
    [D |-> D, W |-> W, newLeftLimit |-> None, err |-> "AssertionError", removed |-> <<>>,
     edits |-> <<>>]
  ELSE WithTail(D, cur, role, W, col, leftLimitFirstRow, text, defaultFormat, src)

\* "if leftLimitFirstRow is None"
FromColumn(D, cur, role, W, col, leftLimitFirstRowArg, text, defaultFormat, src) ==
  IF leftLimitFirstRowArg = None
  THEN Asserted(D, cur, role, [W EXCEPT !.lineShorteningActive = FALSE], col, col, text,
                defaultFormat, src)
  ELSE Asserted(D, cur, role, W, col, leftLimitFirstRowArg, text, defaultFormat, src)

writeText(D, cur, role, W, leftLimitFirstRowArg, text, defaultFormat, src) ==
  FromColumn(D, cur, role, W, positionInBlock(D.buf, cur), leftLimitFirstRowArg, text,
             defaultFormat, src)

\* ------------------------------------------------------------ BaseShell
VARIABLES
  buf,                 \* the document: a sequence of cells
  cursor1,             \* position of _cursor1 (prompt start)
  cursor2,             \* position of _cursor2 (prompt end)
  lastCommandCursor,   \* position of _lastCommandCursor
  keep1, keep2,        \* keepPositionOnInsert of _cursor1, _cursor2
  lastStreamStart,     \* _cursor1_lastStreamStart: [set, id, limit]
  shellWriters,        \* _shellWriters: stream identifier -> ShellWriter
  readOnly,            \* isReadOnly()
  err,                 \* the exception the last call raised, or "none"
  removed,             \* the cells the last call removed from the document
  edits,               \* the edits of the last call and its edit blocks
  last,                \* the last call: [op, prompt, stream, text]
  nops,                \* number of calls made
  pre,                 \* the shell and the call before the last call
  rtText,              \* round trip: the text written both ways
  ref,                 \* round trip: the shell that gets the text in one write
  poller               \* PythonShell.poll: the sub channels, _write_buffer, and
                       \* what arrived and what was passed to write

vars ==
  <<buf, cursor1, cursor2, lastCommandCursor, keep1, keep2, lastStreamStart,
    shellWriters, readOnly, err, removed, edits, last, nops, pre, rtText, ref, poller>>

\* The stream identifiers: the sub channels poll passes to write, and the
\* None of a write without one.
StreamIds == {"out", "err", "echo", "raw", "broker", "prompt", "None"}

NoStreamStart == [set |-> FALSE, id |-> "None", limit |-> 0]
StreamStart(id, limit) == [set |-> TRUE, id |-> id, limit |-> limit]

\* the shell as one record
Shell ==
  [buf |-> buf, c1 |-> cursor1, c2 |-> cursor2, lcc |-> lastCommandCursor,
   k1 |-> keep1, k2 |-> keep2, lss |-> lastStreamStart, writers |-> shellWriters,
   readOnly |-> readOnly, err |-> err, removed |-> removed, edits |-> edits]

\* BaseShell.__init__ (with resetShellWriters): an empty document
InitShell ==
  [buf |-> <<>>, c1 |-> 0, c2 |-> 0, lcc |-> 0, k1 |-> TRUE, k2 |-> TRUE,
   lss |-> NoStreamStart, writers |-> [id \in StreamIds |-> NoShellWriter],
   readOnly |-> FALSE, err |-> "none", removed |-> <<>>, edits |-> <<>>]

\* QtGui.QTextCharFormat(), with the foreground set "if color"
PrepareFormat(color) == NewFormat(color)

\* the result of writeText put into the shell
AfterWriteText(S, r) ==
  [S EXCEPT !.buf = r.D.buf, !.c1 = r.D.c1, !.c2 = r.D.c2, !.lcc = r.D.lcc,
            !.err = r.err, !.removed = r.removed, !.edits = r.edits]

\* "if prompt == 0": S has the flags of both cursors off; r is what
\* shellWriter.writeText returns or raises
AfterBeforePrompt(S, r, streamIdentifier) ==
  IF r.err # "none"
  THEN [AfterWriteText(S, r) EXCEPT !.writers[streamIdentifier] = r.W]
  ELSE [AfterWriteText(S, r) EXCEPT !.writers[streamIdentifier] = r.W,
                                    !.lss = StreamStart(streamIdentifier, r.newLeftLimit),
                                    !.k1 = TRUE, !.k2 = TRUE]

\* variant: the streams share the writer of the stream err
SetDefaultWriterShared(S, streamIdentifier) ==
  IF S.writers["err"].exists THEN S.writers["err"] ELSE NewShellWriter

\* "shellWriter = self._shellWriters.setdefault(streamIdentifier, ShellWriter())"
SetDefaultWriter(S, streamIdentifier) ==
  IF S.writers[streamIdentifier].exists THEN S.writers[streamIdentifier]
  ELSE NewShellWriter

\* the left limit of the stream that wrote last, None for another stream
LeftLimitOf(S, streamIdentifier) ==
  IF S.lss.set /\ S.lss.id = streamIdentifier THEN S.lss.limit ELSE None

writeBeforePrompt(S, text, format, streamIdentifier) ==
  AfterBeforePrompt(S,
                    writeText(S, S.c1, "c1", SetDefaultWriter(S, streamIdentifier),
                              LeftLimitOf(S, streamIdentifier), text, format,
                              streamIdentifier),
                    streamIdentifier)

\* "elif prompt == 1": S has _lastCommandCursor at _cursor2 and the flags off
AfterCommandEcho(S, r) ==
  IF r.err # "none" THEN AfterWriteText(S, r)
  ELSE [AfterWriteText(S, r) EXCEPT !.c1 = r.D.c2, !.lss = NoStreamStart,
                                    !.k1 = TRUE, !.k2 = TRUE]

writeCommandEcho(S, text, format, streamIdentifier) ==
  AfterCommandEcho(S, writeText(S, S.c2, "c2", NewShellWriter, None, text, format,
                                streamIdentifier))

\* variant: the selection runs to the end of the document
RemovePromptToEnd(S) ==
  [DocRemove(S, Min(S.c1, S.c2), Len(S.buf))
     EXCEPT !.removed = SubSeq(S.buf, Min(S.c1, S.c2) + 1, Len(S.buf)),
            !.edits = IF Min(S.c1, S.c2) # Len(S.buf) THEN <<"remove">> ELSE <<>>]

\* variant: the old prompt is selected but not removed
RemovePromptLeavingText(S) == [S EXCEPT !.removed = <<>>]

\* "self._cursor1.setPosition(self._cursor2.position(), A_KEEP)" and
\* "self._cursor1.removeSelectedText()"
RemovePrompt(S) ==
  [DocRemove(S, Min(S.c1, S.c2), Max(S.c1, S.c2))
     EXCEPT !.removed = SubSeq(S.buf, Min(S.c1, S.c2) + 1, Max(S.c1, S.c2)),
            !.edits = IF S.c1 # S.c2 THEN <<"remove">> ELSE <<>>]

\* "elif prompt == 2 and text == "\b""
AfterPromptRemoved(S) == [S EXCEPT !.c2 = S.c1, !.k1 = TRUE, !.k2 = TRUE]

\* "elif prompt == 2": S is without the old prompt, the flag of _cursor2 off
AfterNewPrompt(S, r) ==
  IF r.err # "none"
  THEN [AfterWriteText(S, r) EXCEPT !.removed = S.removed \o r.removed,
                                    !.edits = S.edits \o r.edits]
  ELSE [AfterWriteText(S, r) EXCEPT !.removed = S.removed \o r.removed,
                                    !.edits = S.edits \o r.edits,
                                    !.k1 = TRUE, !.k2 = TRUE]

writeNewPrompt(S, text, format, streamIdentifier) ==
  AfterNewPrompt(S, writeText(S, S.c1, "copy", NewShellWriter, None, text, format,
                              streamIdentifier))

\* the modes of write, S with the exception and the removed cells cleared
writeMode(S, text, prompt, format, streamIdentifier) ==
  IF prompt = 0 THEN
    writeBeforePrompt([S EXCEPT !.k1 = FALSE, !.k2 = FALSE], text, format, streamIdentifier)
  ELSE IF prompt = 1 THEN
    writeCommandEcho([S EXCEPT !.lcc = S.c2, !.k1 = FALSE, !.k2 = FALSE], text, format,
                     streamIdentifier)
  ELSE IF prompt = 2 /\ text = <<BS>> THEN AfterPromptRemoved(RemovePrompt(S))
  ELSE IF prompt = 2 THEN
    writeNewPrompt([RemovePrompt(S) EXCEPT !.k1 = TRUE, !.k2 = FALSE], text, format,
                   streamIdentifier)
  ELSE [S EXCEPT !.k1 = TRUE, !.k2 = TRUE]

\* BaseShell.write(text, prompt, color, streamIdentifier), text a non-empty str
write(S0, text, prompt, color, streamIdentifier) ==
  writeMode([S0 EXCEPT !.err = "none", !.removed = <<>>, !.edits = <<>>], text, prompt,
            PrepareFormat(color), streamIdentifier)

\* bytes.decode("utf-8"), errors="strict": a byte is an integer 0..255.  The
\* characters of the code points that the payloads below decode to:
CodePointChar(cp) ==
  IF cp = 97 THEN "a" ELSE IF cp = 10 THEN LF ELSE IF cp = 233 THEN "U+00E9" ELSE "U+other"

IsContinuation(b) == 128 <= b /\ b <= 191

\* the length of the sequence that the lead byte b begins, 0 for no lead byte
SequenceLength(b) ==
  IF b < 128 THEN 1
  ELSE IF 194 <= b /\ b <= 223 THEN 2
  ELSE IF 224 <= b /\ b <= 239 THEN 3
  ELSE IF 240 <= b /\ b <= 244 THEN 4
  ELSE 0

\* the second byte of a sequence is in the range its lead byte allows
SecondByteFits(b1, b2) ==
  IF b1 = 224 THEN 160 <= b2 /\ b2 <= 191
  ELSE IF b1 = 237 THEN 128 <= b2 /\ b2 <= 159
  ELSE IF b1 = 240 THEN 144 <= b2 /\ b2 <= 191
  ELSE IF b1 = 244 THEN 128 <= b2 /\ b2 <= 143
  ELSE IsContinuation(b2)

\* the sequence of n bytes at i is well formed
WellFormedAt(data, i, n) ==
  /\ n > 0
  /\ i + n - 1 <= Len(data)
  /\ n >= 2 => SecondByteFits(data[i], data[i + 1])
  /\ \A k \in (i + 2)..(i + n - 1) : IsContinuation(data[k])

RECURSIVE Payload(_, _, _, _)
Payload(data, i, n, acc) ==
  IF n = 0 THEN acc ELSE Payload(data, i + 1, n - 1, acc * 64 + (data[i] - 128))

CodePointAt(data, i, n) ==
  IF n = 1 THEN data[i]
  ELSE Payload(data, i + 1, n - 1,
               data[i] - (IF n = 2 THEN 192 ELSE IF n = 3 THEN 224 ELSE 240))

\* returns [ok, text]; ok = FALSE stands for UnicodeDecodeError
RECURSIVE decode(_, _, _)
decode(data, i, text) ==
  IF i > Len(data) THEN [ok |-> TRUE, text |-> text]
  ELSE IF ~WellFormedAt(data, i, SequenceLength(data[i])) THEN [ok |-> FALSE, text |-> <<>>]
  ELSE decode(data, i + SequenceLength(data[i]),
              Append(text, CodePointChar(CodePointAt(data, i, SequenceLength(data[i])))))

\* after "text = text.decode("utf-8")": decoded is what it returns or raises
writeDecoded(S0, decoded, prompt, color, streamIdentifier) ==
  IF ~decoded.ok
  THEN [S0 EXCEPT !.err = "UnicodeDecodeError", !.removed = <<>>, !.edits = <<>>]
  ELSE write(S0, decoded.text, prompt, color, streamIdentifier)

\* BaseShell.write(text, prompt, color, streamIdentifier), text a bytes value
writeBytes(S0, data, prompt, color, streamIdentifier) ==
  IF data = <<>> THEN [S0 EXCEPT !.err = "none", !.removed = <<>>, !.edits = <<>>]
  ELSE writeDecoded(S0, decode(data, 1, <<>>), prompt, color, streamIdentifier)

\* BaseShell.clearScreen
clearScreen(S) ==
  [DocRemove(S, 0, S.c1) EXCEPT !.lss = NoStreamStart, !.err = "none",
                                !.removed = SubSeq(S.buf, 1, S.c1),
                                !.edits = IF S.c1 > 0 THEN <<"remove">> ELSE <<>>]

\* variant: the selection starts at the start of the prompt
clearCommandFromPromptStart(S) ==
  [DocRemove(S, S.c1, Len(S.buf)) EXCEPT !.err = "none",
                                         !.removed = SubSeq(S.buf, S.c1 + 1, Len(S.buf)),
                                         !.edits = IF S.c1 < Len(S.buf) THEN <<"remove">>
                                                   ELSE <<>>]

\* BaseShell.clearCommand
clearCommand(S) ==
  [DocRemove(S, S.c2, Len(S.buf)) EXCEPT !.err = "none",
                                         !.removed = SubSeq(S.buf, S.c2 + 1, Len(S.buf)),
                                         !.edits = IF S.c2 < Len(S.buf) THEN <<"remove">>
                                                   ELSE <<>>]

\* variant: the record of the last stream start outlives the writers
resetShellWritersKeepingStart(S) ==
  [S EXCEPT !.writers = [id \in StreamIds |-> NoShellWriter]]

\* BaseShell.resetShellWriters
resetShellWriters(S) ==
  [S EXCEPT !.writers = [id \in StreamIds |-> NoShellWriter], !.lss = NoStreamStart]

\* PythonShell.restart: resetShellWriters, then resetVariables
restart(S) ==
  [resetShellWriters(S) EXCEPT !.readOnly = FALSE, !.err = "none", !.removed = <<>>,
                               !.edits = <<>>]

\* the writes of a handler one after the other, up to the first that raises
RECURSIVE writeAll(_, _, _)
writeAll(S, texts, i) ==
  IF i > Len(texts) \/ (i > 1 /\ S.err # "none") THEN S
  ELSE writeAll(write(S, texts[i], 0, NoColor, "None"), texts, i + 1)

LostConnectionText ==
  <<"L", "o", "s", "t", " ", "c", "o", "n", "n", "e", "c", "t", "i", "o", "n", " ",
    "w", "i", "t", "h", " ", "b", "r", "o", "k", "e", "r", ":", LF>>

\* "self.setReadOnly(True)", which a write that raised does not reach
ReadOnlyUnlessRaised(S) == IF S.err # "none" THEN S ELSE [S EXCEPT !.readOnly = TRUE]

\* variant: only _cursor1 is moved to the end of the document
_onConnectionCloseOneCursor(S, why) ==
  ReadOnlyUnlessRaised(
    writeAll([S EXCEPT !.c1 = Len(S.buf)],
             << <<LF, LF>>, LostConnectionText, why, <<LF, LF>> >>, 1))

\* PythonShell._onConnectionClose(c, why)
_onConnectionClose(S, why) ==
  ReadOnlyUnlessRaised(
    writeAll([S EXCEPT !.c1 = Len(S.buf), !.c2 = Len(S.buf)],
             << <<LF, LF>>, LostConnectionText, why, <<LF, LF>> >>, 1))

\* A key with text pressed at the edit line: the default handling inserts the
\* character at the text cursor, which is at or after the prompt end.
keyPressEvent(S, pos, ch) ==
  [DocInsert(S, pos, <<Cell(ch, NewFormat(NoColor), "user")>>)
     EXCEPT !.err = "none", !.removed = <<>>, !.edits = <<"insert">>]

\* the variables take the values of the record
Become(S) ==
  /\ buf' = S.buf
  /\ cursor1' = S.c1
  /\ cursor2' = S.c2
  /\ lastCommandCursor' = S.lcc
  /\ keep1' = S.k1
  /\ keep2' = S.k2
  /\ lastStreamStart' = S.lss
  /\ shellWriters' = S.writers
  /\ readOnly' = S.readOnly
  /\ err' = S.err
  /\ removed' = S.removed
  /\ edits' = S.edits

Call(op, prompt, stream, text) == [op |-> op, prompt |-> prompt, stream |-> stream, text |-> text]

\* the variables have the values of the record (for Init)
Is(S) ==
  /\ buf = S.buf
  /\ cursor1 = S.c1
  /\ cursor2 = S.c2
  /\ lastCommandCursor = S.lcc
  /\ keep1 = S.k1
  /\ keep2 = S.k2
  /\ lastStreamStart = S.lss
  /\ shellWriters = S.writers
  /\ readOnly = S.readOnly
  /\ err = S.err
  /\ removed = S.removed
  /\ edits = S.edits

\* PythonShell.poll: the color it passes to write for a sub channel (with
\* pyzo.darkSyntax off)
ColorOf(sub) ==
  IF sub = "broker" THEN "#000"
  ELSE IF sub = "raw" THEN "#888888"
  ELSE IF sub = "err" THEN "#f00"
  ELSE NoColor

\* ------------------------------------------------------------ PythonShell.poll
\* The sub channels given to yoton.select_sub_channel.  A channel holds the
\* fragments that arrived and were not received yet, oldest first.
PollSubs == {"out", "err", "echo", "raw", "broker", "prompt"}

NoWriteBuffer == [set |-> FALSE, sub |-> "None", M |-> <<>>]

NoPoll == [sub |-> "None", n |-> 0, remainderOf |-> "None"]

\* P = [channels, writeBuffer, arrived, written, lastPoll]: arrived and
\* written are, per sub channel, the characters of all fragments that
\* arrived and of all texts passed to write; lastPoll is the sub channel of
\* the last poll, the number of fragments it joined, and the sub channel
\* whose remainder _write_buffer held when it began
InitPoller ==
  [channels |-> [s \in PollSubs |-> <<>>], writeBuffer |-> NoWriteBuffer,
   arrived |-> [s \in PollSubs |-> <<>>], written |-> [s \in PollSubs |-> <<>>],
   lastPoll |-> NoPoll]

\* "".join(M)
RECURSIVE Join(_)
Join(M) ==
  IF M = <<>> THEN <<>>
  ELSE IF Len(M) = 1 THEN M[1]
  ELSE Join(SubSeq(M, 1, Len(M) \div 2)) \o Join(SubSeq(M, (Len(M) \div 2) + 1, Len(M)))

\* yoton.select_sub_channel: the sub channels that have a fragment pending,
\* None when there is none
Selectable(P) ==
  IF \A s \in PollSubs : P.channels[s] = <<>> THEN {"None"}
  ELSE {s \in PollSubs : P.channels[s] # <<>>}

\* sub.recv_selected(): the k oldest fragments of the sub channel leave it
recv_selected(P, sub, k) ==
  [sub |-> sub, M |-> SubSeq(P.channels[sub], 1, k),
   P |-> [P EXCEPT !.channels[sub] = SubSeq(@, k + 1, Len(@))]]

\* variant: the selection is made whether or not _write_buffer holds a remainder
SelectedAfresh(P, sub, k) ==
  IF sub = "None" THEN [sub |-> sub, M |-> <<>>, P |-> P]
  ELSE recv_selected(P, sub, k)

\* "if self._write_buffer: sub, M = self._write_buffer", else the selection
Selected(P, sub, k) ==
  IF P.writeBuffer.set THEN [sub |-> P.writeBuffer.sub, M |-> P.writeBuffer.M, P |-> P]
  ELSE IF sub = "None" THEN [sub |-> sub, M |-> <<>>, P |-> P]
  ELSE recv_selected(P, sub, k)

N == 256

\* variant: the fragments beyond the first N are not buffered
SlicedDroppingRest(M) == [M |-> SubSeq(M, 1, Min(N, Len(M))), buffer |-> <<>>]

\* "M, buffer = M[:N], M[N:]"
Sliced(M) ==
  [M |-> SubSeq(M, 1, Min(N, Len(M))), buffer |-> SubSeq(M, N + 1, Len(M))]

\* "if buffer: self._write_buffer = sub, buffer else: self._write_buffer = None"
Buffered(sub, buffer) ==
  IF buffer # <<>> THEN [set |-> TRUE, sub |-> sub, M |-> buffer] ELSE NoWriteBuffer

\* "Get how to deal with prompt"
PromptOf(sub) == IF sub = "echo" THEN 1 ELSE IF sub = "prompt" THEN 2 ELSE 0

\* "M = M[-1:]  # only use the newest prompt"
NewestPrompt(sub, M) == IF sub = "prompt" THEN SubSeq(M, Len(M), Len(M)) ELSE M

\* "Do any actions?": the action channel holds "cls", or nothing; a write
\* that raised ends the poll before
DoAction(S, action) ==
  IF S.err # "none" THEN S
  ELSE IF action = "cls" THEN clearScreen(S)
  ELSE S

\* "Write all pending messages that are later than any other message":
\* X = [S, P]; sel is the selection, sl its slices
pollWrite(X, sel, sl) ==
  [S |-> IF NewestPrompt(sel.sub, sl.M) = <<>> THEN [X.S EXCEPT !.err = "none", !.removed = <<>>, !.edits = <<>>]
         ELSE write(X.S, Join(NewestPrompt(sel.sub, sl.M)), PromptOf(sel.sub),
                    ColorOf(sel.sub), sel.sub),
   P |-> [sel.P EXCEPT !.writeBuffer = Buffered(sel.sub, sl.buffer),
                       !.written[sel.sub] = @ \o Join(NewestPrompt(sel.sub, sl.M)),
                       !.lastPoll = [sub |-> sel.sub, n |-> Len(sl.M),
                                     remainderOf |-> X.P.writeBuffer.sub]]]

pollSelected(X, sel) ==
  IF sel.sub = "None"
  THEN [S |-> [X.S EXCEPT !.err = "none", !.removed = <<>>, !.edits = <<>>],
        P |-> [sel.P EXCEPT !.lastPoll = NoPoll]]
  ELSE pollWrite(X, sel, Sliced(sel.M))

\* PythonShell.poll: sub and k are what the transport selects and hands
\* over, action what the action channel holds
poll(X, sub, k, action) ==
  [pollSelected(X, Selected(X.P, sub, k)) EXCEPT !.S = DoAction(@, action)]

\* ------------------------------------------------------------ the shell
\* Spec: every operation of the shell, on short fragments.
MaxOps == 4

\* fragments of the stream out, and of the stream err that interleaves
BeforeTexts ==
  {<<"a">>, <<"a", LF>>, <<CR>>, <<BS>>, <<ESC>>, <<VT, VT>>}

ErrTexts == {<<"a">>, <<BS>>, <<ESC>>, <<ESC, "[", "1", "m">>}

TextsOf(sub) == IF sub = "err" THEN ErrTexts ELSE BeforeTexts

\* echoed commands and prompts
EchoTexts == {<<"c">>, <<"c", LF>>, <<"c", VT, VT>>}
PromptTexts == {<<">">>, <<BS>>}

NoCall == Call("init", 0, "None", <<>>)

NoRoundTrip ==
  /\ rtText = <<>>
  /\ ref = [done |-> FALSE, S |-> InitShell]
  /\ poller = InitPoller

Init ==
  /\ Is(InitShell)
  /\ last = NoCall
  /\ nops = 0
  /\ pre = [S |-> InitShell, last |-> NoCall, cleared |-> FALSE]
  /\ NoRoundTrip

\* what a call leaves behind for the next state: the shell and the call before
\* it, and whether the screen has been cleared with no beforePrompt write
\* made since
Before ==
  [S |-> Shell, last |-> last,
   cleared |-> \/ last.op = "clearScreen"
               \/ pre.cleared /\ ~(last.op = "write" /\ last.prompt = 0)]

Step(S, call) ==
  /\ nops < MaxOps
  /\ Become(S)
  /\ last' = call
  /\ nops' = nops + 1
  /\ pre' = Before
  /\ UNCHANGED <<rtText, ref, poller>>

\* write(text, 0, color, sub) for an output stream
WriteBeforePrompt ==
  \E sub \in {"out", "err"} : \E text \in TextsOf(sub) :
    Step(write(Shell, text, 0, ColorOf(sub), sub), Call("write", 0, sub, text))

\* write(text, 1, None, echo)
WriteEcho ==
  \E text \in EchoTexts :
    Step(write(Shell, text, 1, ColorOf("echo"), "echo"), Call("write", 1, "echo", text))

\* write(text, 2, None, prompt)
WritePrompt ==
  \E text \in PromptTexts :
    Step(write(Shell, text, 2, ColorOf("prompt"), "prompt"), Call("write", 2, "prompt", text))

ClearScreen == Step(clearScreen(Shell), Call("clearScreen", 0, "None", <<>>))

ClearCommand == Step(clearCommand(Shell), Call("clearCommand", 0, "None", <<>>))

Restart == Step(restart(Shell), Call("restart", 0, "None", <<>>))

ConnectionClose ==
  \E why \in {<<"w">>} :
    Step(_onConnectionClose(Shell, why), Call("_onConnectionClose", 0, "None", why))

\* the user types a character at the edit line
KeyPress ==
  /\ ~readOnly
  /\ \E pos \in {cursor2, Len(buf)}, ch \in {"u"} :
       Step(keyPressEvent(Shell, pos, ch), Call("keyPressEvent", pos, "user", <<ch>>))

Next ==
  \/ WriteBeforePrompt
  \/ WriteEcho
  \/ WritePrompt
  \/ ClearScreen
  \/ ClearCommand
  \/ Restart
  \/ ConnectionClose
  \/ KeyPress

Spec == Init /\ [][Next]_vars

\* ------------------------------------------------------------ two streams
\* SpecStreams: the output streams out and err write fragments in any
\* interleaving, as poll hands them over, into a shell with or without a
\* prompt.  The fragments are the pieces a chunked stream arrives in: plain
\* text, a newline, a carriage return at either end of a fragment, backspace
\* runs, and an escape sequence cut before its final letter.
Fragments ==
  {<<"a">>, <<LF>>, <<"a", CR>>, <<CR, "d">>, <<LF, "d">>, <<BS>>,
   <<BS, BS, "X">>, <<ESC, "[", "1">>, <<"m">>, <<"m", CR>>}

InitStreams ==
  /\ \E S \in {InitShell, write(InitShell, <<">">>, 2, ColorOf("prompt"), "prompt")} : Is(S)
  /\ last = NoCall
  /\ nops = 0
  /\ pre = [S |-> InitShell, last |-> NoCall, cleared |-> FALSE]
  /\ NoRoundTrip

WriteFragment ==
  \E sub \in {"out", "err"}, text \in Fragments :
    Step(write(Shell, text, 0, ColorOf(sub), sub), Call("write", 0, sub, text))

NextStreams == WriteFragment

SpecStreams == InitStreams /\ [][NextStreams]_vars

\* ------------------------------------------------------------ round trip
\* SpecRT: one text written to the stream out of a fresh shell twice, in one
\* write (ref) and one character per write (the shell of the variables).
MaxRTLen == 3

RTAlphabet == {"a", LF, U2028, CR, BS, TAB, VT, ESC, "[", "1", ";", "m"}

RECURSIVE TextsOfLen(_)
TextsOfLen(n) ==
  IF n = 0 THEN {<<>>}
  ELSE {Append(t, c) : t \in TextsOfLen(n - 1), c \in RTAlphabet}

RTTexts == UNION {TextsOfLen(n) : n \in 1..MaxRTLen}

InitRT ==
  /\ Is(InitShell)
  /\ last = NoCall
  /\ nops = 0
  /\ pre = [S |-> InitShell, last |-> NoCall, cleared |-> FALSE]
  /\ rtText \in RTTexts
  /\ ref = [done |-> FALSE, S |-> InitShell]
  /\ poller = InitPoller

\* write(rtText, 0, None, out) on the reference shell
WriteWhole ==
  /\ ~ref.done
  /\ ref' = [done |-> TRUE, S |-> write(ref.S, rtText, 0, ColorOf("out"), "out")]
  /\ UNCHANGED <<buf, cursor1, cursor2, lastCommandCursor, keep1, keep2,
                 lastStreamStart, shellWriters, readOnly, err, removed, edits, last,
                 nops, pre, rtText, poller>>

\* write(c, 0, None, out) of the next character of rtText
WriteChar ==
  /\ nops < Len(rtText)
  /\ Become(write(Shell, <<rtText[nops + 1]>>, 0, ColorOf("out"), "out"))
  /\ last' = Call("write", 0, "out", <<rtText[nops + 1]>>)
  /\ nops' = nops + 1
  /\ pre' = Before
  /\ UNCHANGED <<rtText, ref, poller>>

NextRT == WriteWhole \/ WriteChar

SpecRT == InitRT /\ [][NextRT]_vars

\* ------------------------------------------------------------ long rows
\* SpecLong: writes of every mode with plain texts that take a row up to and
\* over the column at which line shortening turns on.
MaxLongOps == 3

Xs(n) == [i \in 1..n |-> "x"]

\* a row of shorteningOnAbove + 1 columns is cut into rows of shortLineLength;
\* FillLen more characters fill its last row
FillLen == shortLineLength - ((shorteningOnAbove + 1) % shortLineLength)

\* a text that fills the last row but one column and ends in an escape
\* sequence cut before its final letter
CutSequence == Xs(FillLen - 1) \o <<ESC, "[", "1">>

\* a row that line shortening cuts into full rows with nothing left over
FullRows == Xs(shorteningOnAbove + 1 + FillLen)

\* a row of shorteningOnAbove + 1 columns with a style change where line
\* shortening cuts it and another one inside a row
StyledRows ==
  Xs(shortLineLength) \o <<ESC, "[", "1", "m">> \o Xs(FillLen) \o <<ESC, "[", "3", "2", "m">>
    \o Xs(shorteningOnAbove + 1 - shortLineLength - FillLen)

OutLongTexts ==
  {Xs(shorteningOnAbove), Xs(shorteningOnAbove + 1), <<"a">>, <<"a", CR>>, <<LF>>, <<ESC>>,
   CutSequence, <<"m">>, FullRows, StyledRows}

ErrLongTexts == {<<"a">>, Xs(FillLen)}

LongTextsOf(sub) == IF sub = "err" THEN ErrLongTexts ELSE OutLongTexts

LongStep(S, call) ==
  /\ nops < MaxLongOps
  /\ Become(S)
  /\ last' = call
  /\ nops' = nops + 1
  /\ pre' = Before
  /\ UNCHANGED <<rtText, ref, poller>>

WriteLongBeforePrompt ==
  \E sub \in {"out", "err"} : \E text \in LongTextsOf(sub) :
    LongStep(write(Shell, text, 0, ColorOf(sub), sub), Call("write", 0, sub, text))

WriteLongEcho ==
  \E text \in {<<"c">>, Xs(shorteningOnAbove + 1)} :
    LongStep(write(Shell, text, 1, ColorOf("echo"), "echo"), Call("write", 1, "echo", text))

WriteLongPrompt ==
  \E text \in {<<">">>, Xs(shorteningOnAbove + 1)} :
    LongStep(write(Shell, text, 2, ColorOf("prompt"), "prompt"),
             Call("write", 2, "prompt", text))

\* the user types a character right after the prompt
LongKeyPress ==
  \E ch \in {"u"} :
    LongStep(keyPressEvent(Shell, cursor2, ch), Call("keyPressEvent", cursor2, "user", <<ch>>))

NextLong ==
  \/ WriteLongBeforePrompt
  \/ WriteLongEcho
  \/ WriteLongPrompt
  \/ LongKeyPress

SpecLong == Init /\ [][NextLong]_vars

\* ------------------------------------------------------------ formats
\* SpecFormat: the output streams write texts that begin with a format escape
\* sequence ESC [ params m, texts with horizontal tabs, and payloads of bytes.
MaxFormatOps == 3

SGR(params) == <<ESC, "[">> \o params \o <<"m">>

\* single codes, several codes of which a later one overrides an earlier one,
\* codes that are not supported (5, 40), and the reset of the foreground (39)
FormatParams ==
  {<<"0">>, <<"1">>, <<"3", "1">>,
   <<"2", ";", "3", ";", "4", ";", "3", "2">>,
   <<"0", ";", "1">>, <<"3", ";", "0">>, <<"3", "1", ";", "3", "2">>,
   <<"1", ";", "5", ";", "4">>, <<"4", "0">>, <<"3", "9">>}

FormatTexts == {<<"a">>} \cup {SGR(params) \o <<"a">> : params \in FormatParams}

\* texts that take the column to every residue of the tab width, and tabs
TabTexts == {<<"a", "b", "c">>, <<"a", "b", "c", "d">>, <<TAB>>, <<"a", TAB, "b">>}

WriteFormatted ==
  /\ nops < MaxFormatOps
  /\ \E sub \in {"out", "err"}, text \in FormatTexts \cup TabTexts :
       /\ Become(write(Shell, text, 0, ColorOf(sub), sub))
       /\ last' = Call("write", 0, sub, text)
  /\ nops' = nops + 1
  /\ pre' = Before
  /\ UNCHANGED <<rtText, ref, poller>>

\* payloads of bytes: "a", U+00E9 in two bytes, and "a" with a byte that
\* begins no sequence
BytesPayloads == {<<97>>, <<195, 169>>, <<97, 255>>}

\* write(data, 0, None, out) with data a bytes value
WriteBytes ==
  /\ nops < MaxFormatOps
  /\ \E data \in BytesPayloads :
       /\ Become(writeBytes(Shell, data, 0, ColorOf("out"), "out"))
       /\ last' = Call("writeBytes", 0, "out", data)
  /\ nops' = nops + 1
  /\ pre' = Before
  /\ UNCHANGED <<rtText, ref, poller>>

NextFormat == WriteFormatted \/ WriteBytes

SpecFormat == Init /\ [][NextFormat]_vars

\* ------------------------------------------------------------ polling
\* SpecPoll: fragments arrive on the sub channels, alone and in bursts of more
\* than N, and poll hands them to write.
MaxPollOps == 4

ArrivalSubs == {"out", "err", "prompt"}

\* the i-th fragment of a sub channel: one character, by turns a, b, c
FragmentAt(i) == << <<"a", "b", "c">>[(i % 3) + 1] >>

Burst(from, n) == [i \in 1..n |-> FragmentAt(from + i)]

\* the kernel sends n fragments on a sub channel
Arrive ==
  /\ nops < MaxPollOps
  /\ \E sub \in ArrivalSubs, n \in {1, N + 1} :
       /\ poller' = [poller EXCEPT
                       !.channels[sub] = @ \o Burst(Len(poller.arrived[sub]), n),
                       !.arrived[sub] = @ \o Join(Burst(Len(poller.arrived[sub]), n))]
       /\ last' = Call("arrive", n, sub, <<>>)
  /\ nops' = nops + 1
  /\ pre' = Before
  /\ UNCHANGED <<buf, cursor1, cursor2, lastCommandCursor, keep1, keep2,
                 lastStreamStart, shellWriters, readOnly, err, removed, edits, rtText,
                 ref>>

\* the numbers of fragments recv_selected may hand over: the oldest one, all,
\* or N of more than N
RecvCounts(P, sub) ==
  IF sub = "None" THEN {0}
  ELSE {1, Min(N, Len(P.channels[sub])), Len(P.channels[sub])}

\* the timer calls poll
Poll ==
  /\ nops < MaxPollOps
  /\ \E sub \in Selectable(poller), action \in {"", "cls"} :
       \E k \in RecvCounts(poller, sub) :
         /\ Become(poll([S |-> Shell, P |-> poller], sub, k, action).S)
         /\ poller' = poll([S |-> Shell, P |-> poller], sub, k, action).P
         /\ last' = Call("poll", k, sub, <<>>)
  /\ nops' = nops + 1
  /\ pre' = Before
  /\ UNCHANGED <<rtText, ref>>

NextPoll == Arrive \/ Poll

SpecPoll == Init /\ [][NextPoll]_vars

\* SpecPollTimer: the timer keeps calling poll while the kernel sends a
\* bounded number of bursts and the user restarts the kernel.
MaxTimerOps == 3

\* the kernel sends n fragments on an output sub channel
TimerArrive ==
  /\ nops < MaxTimerOps
  /\ \E sub \in {"out", "err"}, n \in {1, N + 1} :
       /\ poller' = [poller EXCEPT
                       !.channels[sub] = @ \o Burst(Len(poller.arrived[sub]), n),
                       !.arrived[sub] = @ \o Join(Burst(Len(poller.arrived[sub]), n))]
       /\ last' = Call("arrive", n, sub, <<>>)
  /\ nops' = nops + 1
  /\ pre' = Before
  /\ UNCHANGED <<buf, cursor1, cursor2, lastCommandCursor, keep1, keep2,
                 lastStreamStart, shellWriters, readOnly, err, removed, edits, rtText,
                 ref>>

\* the user restarts the kernel; _write_buffer is left as it is
TimerRestart ==
  /\ nops < MaxTimerOps
  /\ Become(restart(Shell))
  /\ last' = Call("restart", 0, "None", <<>>)
  /\ nops' = nops + 1
  /\ pre' = Before
  /\ UNCHANGED <<rtText, ref, poller>>

\* the numbers of fragments recv_selected hands over here: all that are
\* pending, or N of more than N
TimerRecvCounts(P, sub) ==
  IF sub = "None" THEN {0}
  ELSE {Min(N, Len(P.channels[sub])), Len(P.channels[sub])}

\* the timer calls poll; the timer has no end
TimerPoll ==
  /\ \E sub \in Selectable(poller) :
       \E k \in TimerRecvCounts(poller, sub) :
         /\ Become(poll([S |-> Shell, P |-> poller], sub, k, "").S)
         /\ poller' = poll([S |-> Shell, P |-> poller], sub, k, "").P
         /\ last' = Call("poll", k, sub, <<>>)
  /\ pre' = Before
  /\ UNCHANGED <<nops, rtText, ref>>

NextTimer == TimerArrive \/ TimerRestart \/ TimerPoll

\* poll has nothing to write: no fragment is pending and _write_buffer is
\* empty
NothingToPoll ==
  /\ ~poller.writeBuffer.set
  /\ \A sub \in PollSubs : poller.channels[sub] = <<>>

\* the timer keeps calling poll: polls are made again and again, unless
\* again and again there is nothing for a poll to write (weak fairness of
\* TimerPoll, with NothingToPoll for the states where a poll changes nothing)
PollKeepsBeingCalled ==
  \/ []<>NothingToPoll
  \/ []<><<last'.op = "poll">>_vars

SpecPollTimer == Init /\ [][NextTimer]_vars /\ PollKeepsBeingCalled

\* ------------------------------------------------------------ properties
Chars(cells) == [i \in 1..Len(cells) |-> cells[i].ch]

\* the characters and formats of a document, without the stream tags
Render(b) == [i \in 1..Len(b) |-> [ch |-> b[i].ch, fmt |-> b[i].fmt]]

\* the prompt text lies between _cursor1 and _cursor2, the user's input after
PromptText(S) == SubSeq(S.buf, S.c1 + 1, S.c2)
UserInput(S) == SubSeq(S.buf, S.c2 + 1, Len(S.buf))

ControlChars == {ESC, BS, VT, CR, TAB} \cup _linebreaks

IsPlain(text) == \A i \in 1..Len(text) : text[i] \notin ControlChars

IsWrite(call, prompt) == call.op = "write" /\ call.prompt = prompt

\* two beforePrompt writes of one stream in a row, the first of which returned
SameStreamTwice ==
  /\ IsWrite(last, 0)
  /\ IsWrite(pre.last, 0)
  /\ pre.last.stream = last.stream
  /\ pre.S.err = "none"

RECURSIVE LeadingBackspaces(_)
LeadingBackspaces(text) ==
  IF text # <<>> /\ Head(text) = BS THEN 1 + LeadingBackspaces(Tail(text)) ELSE 0

\* C1: a beforePrompt write of a stream removes from the document only
\* characters that the same stream inserted, whatever the interleaving of the
\* streams and whatever tail the stream carries.
C1_RemovesOnlyOwnCharacters ==
  IsWrite(last, 0) => \A i \in 1..Len(removed) : removed[i].src = last.stream

\* C2: a beforePrompt write leaves the prompt text (between prompt start and
\* prompt end) and the user's input (after prompt end) exactly as they were.
C2_BeforePromptFrame ==
  IsWrite(last, 0) =>
    /\ PromptText(Shell) = PromptText(pre.S)
    /\ UserInput(Shell) = UserInput(pre.S)

C2_Witness ==
  /\ IsWrite(last, 0)
  /\ err = "none"
  /\ PromptText(pre.S) # <<>>
  /\ UserInput(pre.S) # <<>>
  /\ removed # <<>>
  /\ buf # pre.S.buf

\* C3: in every reachable state the prompt start is not after the prompt end.
C3_PromptStartBeforeEnd == cursor1 <= cursor2

C3_Witness ==
  /\ last.op = "_onConnectionClose"
  /\ UserInput(pre.S) # <<>>
  /\ pre.S.c1 < pre.S.c2
  /\ cursor1 = cursor2
  /\ cursor1 = Len(buf)

\* C4: a text written to one stream one character per call leaves the same
\* characters with the same formats as the text written in a single call.
C4_RoundTrip ==
  (ref.done /\ nops = Len(rtText)) => Render(buf) = Render(ref.S.buf)

\* C5: no call of write raises an exception, whatever the text, the mode, the
\* stream and the state.
C5_WriteNeverRaises == last.op = "write" => err = "none"

\* C6: after a stream wrote a text without line breaks, its next write of a
\* carriage return followed by a plain text T2 leaves, from the stream's left
\* limit to the write position, T2 alone.
C6_CarriageReturnErases ==
  (/\ SameStreamTwice
   /\ IsPlain(pre.last.text)
   /\ Len(last.text) >= 2
   /\ Head(last.text) = CR
   /\ IsPlain(Tail(last.text)))
  => /\ err = "none"
     /\ Chars(SubSeq(buf, BlockStart(buf, cursor1) + pre.S.lss.limit + 1, cursor1))
          = Tail(last.text)

\* C7: when a fragment ends with a carriage return and the next fragment of
\* the same stream begins with a newline, nothing is erased and the newline
\* follows the row as it was: two rows.
C7_CarriageReturnNewlineSplit ==
  (/\ SameStreamTwice
   /\ pre.last.text[Len(pre.last.text)] = CR
   /\ Head(last.text) = LF)
  => /\ err = "none"
     /\ removed = <<>>
     /\ SubSeq(buf, 1, pre.S.c1) = SubSeq(pre.S.buf, 1, pre.S.c1)
     /\ Len(buf) > pre.S.c1
     /\ buf[pre.S.c1 + 1].ch = LF

\* C8: a fragment that begins with a run of N backspaces, written by a stream
\* that carries no tail, removes exactly min(N, column - left limit)
\* characters, none of them a newline, and raises nothing; the left limit of a
\* stream that did not write last is the column itself.
C8_BackspaceClamped ==
  (/\ IsWrite(last, 0)
   /\ Head(last.text) = BS
   /\ pre.S.writers[last.stream].unfinishedTail = <<>>)
  => LET col == positionInBlock(pre.S.buf, pre.S.c1)
         limit == IF pre.S.lss.set /\ pre.S.lss.id = last.stream
                  THEN pre.S.lss.limit ELSE col
     IN /\ err = "none"
        /\ Len(removed) = Min(LeadingBackspaces(last.text), col - limit)
        /\ \A i \in 1..Len(removed) : removed[i].ch # LF

\* C10: after write(cmdText, prompt=1) the last command starts at the prompt
\* end of before the call, the text was inserted there, and prompt start and
\* prompt end are both right after the inserted text.
C10_EchoCollapsesPrompt ==
  IsWrite(last, 1) =>
    LET k == Len(buf) - Len(pre.S.buf)
    IN /\ lastCommandCursor = pre.S.c2
       /\ SubSeq(buf, 1, pre.S.c2) = SubSeq(pre.S.buf, 1, pre.S.c2)
       /\ SubSeq(buf, pre.S.c2 + k + 1, Len(buf)) = UserInput(pre.S)
       /\ cursor2 = pre.S.c2 + k
       /\ cursor1 = cursor2

\* the document a write works on and the position it writes at: mode 2
\* removes the old prompt first and writes at the prompt start, mode 1 writes
\* at the prompt end, mode 0 at the prompt start
WriteBase(S, prompt) == IF prompt = 2 THEN DocRemove(S, S.c1, S.c2) ELSE S
WriteAt(S, prompt) == IF prompt = 1 THEN S.c2 ELSE S.c1

\* the last call returned and the document is the one of before with the
\* characters of the text put in at the position of the mode
PlainInsertion ==
  LET B == WriteBase(pre.S, last.prompt)
      at == WriteAt(B, last.prompt)
  IN /\ err = "none"
     /\ Chars(buf) = Chars(SubSeq(B.buf, 1, at)) \o last.text
                       \o Chars(SubSeq(B.buf, at + 1, Len(B.buf)))

\* the write starts from fresh stream state: modes 1 and 2 make a new
\* writer; in mode 0 the stream carries no unfinished escape sequence and
\* does not take up the left limit of a preceding write of its own
FreshWriter ==
  \/ last.prompt \in {1, 2}
  \/ LET W == pre.S.writers[last.stream]
     IN /\ (W.unfinishedTail = <<>> \/ Head(W.unfinishedTail) # ESC)
        /\ ~(pre.S.lss.set /\ pre.S.lss.id = last.stream)

\* the row with the text at the write position is at most 1024 columns
RowFits ==
  LET B == WriteBase(pre.S, last.prompt)
  IN positionInBlock(B.buf, WriteAt(B, last.prompt)) + Len(last.text) <= 1024

AfterCollapsingEcho ==
  /\ IsWrite(pre.last, 1)
  /\ pre.S.err = "none"
  /\ pre.S.c1 = pre.S.c2

\* C11: after a command echo has collapsed the prompt to the position right
\* after the echoed text, a beforePrompt write changes nothing up to that
\* position (the output goes after it) and the prompt stays collapsed, at or
\* after that position.
C11_EchoPositionStays ==
  (IsWrite(last, 0) /\ AfterCollapsingEcho) =>
    /\ SubSeq(buf, 1, pre.S.c1) = SubSeq(pre.S.buf, 1, pre.S.c1)
    /\ cursor1 = cursor2
    /\ cursor1 >= pre.S.c1

\* the lines the last write handed to _shortenLines: the finished lines of
\* its text and the open line at their end
LastBatch ==
  LET W == SetDefaultWriter(pre.S, last.stream)
      col == positionInBlock(pre.S.buf, pre.S.c1)
      limit == LeftLimitOf(pre.S, last.stream)
      L == TokensOf(WithFormat(W, PrepareFormat(ColorOf(last.stream))),
                    IF limit = None THEN col ELSE limit,
                    StartColumn(W, col), SplitText(W, last.text),
                    PrepareFormat(ColorOf(last.stream)))
  IN Append(L.finishedLines, LineItem(L.ll, L.posInBlock))

\* line i of the batch ends above column 1024
LongLine(B, i) == B[i].endPos > 1024

\* line i of the batch ends at column 81 or before and is closed by a newline
ClosedShortLine(B, i) == i < Len(B) /\ B[i].endPos <= 81

ShorteningBefore == pre.S.writers[last.stream].lineShorteningActive
ShorteningAfter == shellWriters[last.stream].lineShorteningActive

\* the last write takes up the row of the stream's own preceding write
ContinuesOwnWrite == pre.S.lss.set /\ pre.S.lss.id = last.stream

\* a beforePrompt write that returned, its batch made of lines
BatchWritten(B) ==
  /\ IsWrite(last, 0)
  /\ err = "none"
  /\ \A i \in 1..Len(B) : B[i].k = "line"

\* shortening is on after a line above 1024 with no closed short line after
\* it, and off after a closed short line with no line above 1024 after it
HysteresisSwitches(B) ==
  /\ (\E i \in 1..Len(B) : LongLine(B, i) /\ \A j \in (i + 1)..Len(B) : ~ClosedShortLine(B, j))
       => ShorteningAfter
  /\ (\E i \in 1..Len(B) : ClosedShortLine(B, i) /\ \A j \in (i + 1)..Len(B) : ~LongLine(B, j))
       => ~ShorteningAfter

\* C12 (as stated): once a line of a stream ends above column 1024 line
\* shortening is on for the stream, and it stays on across the stream's
\* subsequent writes until a line that ends at column 81 or before is closed
\* by a newline; the open last line of a batch never turns it off.
C12_HysteresisAcrossWrites ==
  BatchWritten(LastBatch) =>
    /\ HysteresisSwitches(LastBatch)
    /\ (ShorteningBefore /\ \A j \in 1..Len(LastBatch) : ~ClosedShortLine(LastBatch, j))
         => ShorteningAfter

\* C12 (amended): the same across the writes of a stream that take up its own
\* preceding write; a write that comes after another stream's write, an echo
\* or clearScreen starts with shortening off.
C12_HysteresisAcrossOwnWrites ==
  BatchWritten(LastBatch) =>
    /\ HysteresisSwitches(LastBatch)
    /\ (ContinuesOwnWrite /\ ShorteningBefore
          /\ \A j \in 1..Len(LastBatch) : ~ClosedShortLine(LastBatch, j))
         => ShorteningAfter
    /\ (~ContinuesOwnWrite /\ \A j \in 1..Len(LastBatch) : ~LongLine(LastBatch, j))
         => ~ShorteningAfter

\* shortening was on, the stream wrote an open short line, shortening is on
C12_Witness ==
  /\ BatchWritten(LastBatch)
  /\ ContinuesOwnWrite
  /\ ShorteningBefore
  /\ Len(LastBatch) = 1
  /\ LastBatch[1].endPos <= 81
  /\ ShorteningAfter

\* C13 (as stated): after write(text, prompt=2) with a text free of control
\* characters the old prompt text is gone, the document between prompt start
\* and prompt end is exactly the new text, the prompt start is where the old
\* prompt began, and the user's input after the prompt is unchanged.
C13_NewPromptReplacesPrompt ==
  (IsWrite(last, 2) /\ IsPlain(last.text)) =>
    /\ err = "none"
    /\ cursor1 = pre.S.c1
    /\ SubSeq(buf, 1, cursor1) = SubSeq(pre.S.buf, 1, pre.S.c1)
    /\ Chars(PromptText(Shell)) = last.text
    /\ UserInput(Shell) = UserInput(pre.S)

\* C13 (amended): the same for a text that keeps the row of the prompt within
\* 1024 columns.
C13_ShortNewPromptReplacesPrompt ==
  (IsWrite(last, 2) /\ IsPlain(last.text) /\ RowFits) =>
    /\ err = "none"
    /\ cursor1 = pre.S.c1
    /\ SubSeq(buf, 1, cursor1) = SubSeq(pre.S.buf, 1, pre.S.c1)
    /\ Chars(PromptText(Shell)) = last.text
    /\ UserInput(Shell) = UserInput(pre.S)

\* a new prompt written over a longer one, with input of the user after it
C13_Witness ==
  /\ IsWrite(last, 2)
  /\ last.text = <<">">>
  /\ Len(PromptText(pre.S)) > 1
  /\ UserInput(pre.S) # <<>>
  /\ Chars(PromptText(Shell)) = last.text
  /\ Len(buf) < Len(pre.S.buf)

\* C14: write("\b", prompt=2) removes all text between prompt start and
\* prompt end, leaves prompt start equal to prompt end, and changes no text
\* before the prompt start or after the old prompt end.
C14_BackspacePromptRemovesPrompt ==
  (IsWrite(last, 2) /\ last.text = <<BS>>) =>
    /\ err = "none"
    /\ removed = PromptText(pre.S)
    /\ buf = SubSeq(pre.S.buf, 1, pre.S.c1) \o UserInput(pre.S)
    /\ cursor1 = pre.S.c1
    /\ cursor2 = cursor1

\* a prompt with output before it and input of the user after it is removed
C14_Witness ==
  /\ IsWrite(last, 2)
  /\ last.text = <<BS>>
  /\ pre.S.c1 > 0
  /\ PromptText(pre.S) # <<>>
  /\ UserInput(pre.S) # <<>>
  /\ cursor2 = cursor1
  /\ Len(buf) = Len(pre.S.buf) - Len(PromptText(pre.S))

\* the default style of a stream: the format write prepares for its color
DefaultStyle(sub) == PrepareFormat(ColorOf(sub))

\* C15: applying the sequence ESC[0m yields exactly the default style,
\* whatever the style of the stream was before: parseFormat returns the
\* default format for every format a stream has reached, and after a write of
\* ESC[0m and a character that returned the character has the default style
\* and the stream continues with it.
C15_ResetYieldsDefaultStyle ==
  /\ \A sub \in {"out", "err"} :
       parseFormat(SGR(<<"0">>), shellWriters[sub].currentFormat, DefaultStyle(sub)).format
         = DefaultStyle(sub)
  /\ (IsWrite(last, 0) /\ err = "none" /\ last.text = SGR(<<"0">>) \o <<"a">>) =>
       /\ buf[cursor1].ch = "a"
       /\ buf[cursor1].fmt = DefaultStyle(last.stream)
       /\ shellWriters[last.stream].currentFormat = DefaultStyle(last.stream)

\* the stream err, light, italic, underlined and green, is reset
C15_Witness ==
  /\ IsWrite(last, 0)
  /\ last.stream = "err"
  /\ last.text = SGR(<<"0">>) \o <<"a">>
  /\ pre.S.writers["err"].currentFormat
       = [weight |-> "Light", italic |-> TRUE, underline |-> TRUE, fg |-> COLORS[3]]
  /\ buf[cursor1].fmt = DefaultStyle("err")

\* the text has one horizontal tab and no other control character
OneTab(text) ==
  /\ Cardinality({i \in 1..Len(text) : text[i] = TAB}) = 1
  /\ \A i \in 1..Len(text) : text[i] = TAB \/ text[i] \notin ControlChars

TabIndex(text) == CHOOSE i \in 1..Len(text) : text[i] = TAB

\* the text with its tab replaced by n spaces
TabExpanded(text, n) ==
  SubSeq(text, 1, TabIndex(text) - 1) \o Spaces(n)
    \o SubSeq(text, TabIndex(text) + 1, Len(text))

\* the column of the tab of the last write: the column of the write position
\* and the characters of the text before the tab
TabColumn == positionInBlock(pre.S.buf, pre.S.c1) + TabIndex(last.text) - 1

\* C16: a tab written at column c emits 8 - (c mod 8) spaces, so that the
\* column after it is the next multiple of 8 strictly above c: a beforePrompt
\* write that returns, of a text with one tab by a stream without a tail,
\* inserts the text with the tab replaced by that many spaces.
C16_TabToNextMultipleOf8 ==
  (/\ IsWrite(last, 0)
   /\ err = "none"
   /\ OneTab(last.text)
   /\ pre.S.writers[last.stream].unfinishedTail = <<>>)
  => /\ Chars(buf) = Chars(SubSeq(pre.S.buf, 1, pre.S.c1))
                       \o TabExpanded(last.text, 8 - (TabColumn % 8))
                       \o Chars(SubSeq(pre.S.buf, pre.S.c1 + 1, Len(pre.S.buf)))
     /\ (TabColumn + 8 - (TabColumn % 8)) % 8 = 0
     /\ removed = <<>>

\* "a\tb" at column 0 yields "a", 7 spaces, "b"; a tab at column 8 yields 8
\* spaces; every residue of the column is met
C16_Witness ==
  /\ IsWrite(last, 0)
  /\ err = "none"
  /\ last.text = <<TAB>>
  /\ TabColumn = 8
  /\ Chars(SubSeq(buf, cursor1 - 7, cursor1)) = Spaces(8)
  /\ positionInBlock(buf, cursor1) = 16

\* C17: a write of a bytes value decodes it as UTF-8 with invalid bytes
\* replaced rather than raising: whatever the payload, no exception reaches
\* the caller and the payload is written.
C17_BytesAreWritten ==
  last.op = "writeBytes" =>
    /\ err = "none"
    /\ Len(buf) > Len(pre.S.buf)

\* the characters of the remainder that _write_buffer holds for sub
BufferedFor(sub) ==
  IF poller.writeBuffer.set /\ poller.writeBuffer.sub = sub THEN Join(poller.writeBuffer.M)
  ELSE <<>>

\* C18: for each sub channel other than the prompt, the texts passed to write
\* over the polls are, joined, the fragments that arrived on it in their
\* order of arrival: what was written, the buffered remainder and what is
\* still pending make up what arrived; a poll joins at most 256 fragments;
\* and the poll that finds a buffered remainder writes from that remainder,
\* whatever else is pending.
C18_PollKeepsArrivalOrder ==
  /\ \A sub \in PollSubs \ {"prompt"} :
       poller.arrived[sub]
         = poller.written[sub] \o BufferedFor(sub) \o Join(poller.channels[sub])
  /\ poller.lastPoll.n <= 256
  /\ poller.lastPoll.remainderOf # "None" => poller.lastPoll.sub = poller.lastPoll.remainderOf

\* 257 fragments of out were written in two polls, 256 and then the one
\* buffered, while a fragment of err was pending
C18_Witness ==
  /\ last.op = "poll"
  /\ poller.lastPoll = [sub |-> "out", n |-> 1, remainderOf |-> "out"]
  /\ Len(poller.written["out"]) = 257
  /\ poller.written["out"] = poller.arrived["out"]
  /\ poller.channels["err"] # <<>>
  /\ ~poller.writeBuffer.set

\* The edits of a call lie inside one edit block: the call opens at most one
\* block, and each removal and insertion comes after its begin and before
\* its end.
InOneEditBlock(e) ==
  /\ Cardinality({i \in DOMAIN e : e[i] = "begin"}) <= 1
  /\ \A i \in DOMAIN e :
       e[i] \in {"remove", "insert"} =>
         /\ \E b \in 1..(i - 1) : e[b] = "begin"
         /\ \E d \in (i + 1)..Len(e) : e[d] = "end"

\* C19: in every mode, all removals and insertions made by one write call
\* happen inside one edit block, between one beginEditBlock and its
\* endEditBlock.
C19_WriteInOneEditBlock ==
  last.op = "write" => InOneEditBlock(edits)

\* C20: clearScreen erases everything before prompt-start and nothing else:
\* afterwards prompt-start is at position 0, the prompt text and the user's
\* input are unchanged, and the erase limit is cleared, so that the next
\* beforePrompt write of any stream erases nothing.
C20_ClearScreenErasesBeforePrompt ==
  /\ last.op = "clearScreen" =>
       /\ cursor1 = 0
       /\ buf = SubSeq(pre.S.buf, pre.S.c1 + 1, Len(pre.S.buf))
       /\ removed = SubSeq(pre.S.buf, 1, pre.S.c1)
       /\ PromptText(Shell) = PromptText(pre.S)
       /\ UserInput(Shell) = UserInput(pre.S)
       /\ lastStreamStart = NoStreamStart
  /\ (IsWrite(last, 0) /\ pre.cleared) => removed = <<>>

\* C21: clearCommand removes exactly the text from prompt-end to the end of
\* the document: prompt-start, prompt-end, the prompt text and all text
\* before the prompt are unchanged.
C21_ClearCommandRemovesInput ==
  last.op = "clearCommand" =>
    /\ removed = UserInput(pre.S)
    /\ buf = SubSeq(pre.S.buf, 1, pre.S.c2)
    /\ cursor1 = pre.S.c1
    /\ cursor2 = pre.S.c2
    /\ PromptText(Shell) = PromptText(pre.S)
    /\ UserInput(Shell) = <<>>

\* a command is cleared that stood behind a prompt with output before it
C21_Witness ==
  /\ last.op = "clearCommand"
  /\ removed # <<>>
  /\ 0 < cursor1
  /\ cursor1 < cursor2

\* the text is plain text with one run of vertical tabs in it
OneTabRun(text) ==
  /\ \E i \in DOMAIN text : text[i] = VT
  /\ \A i \in DOMAIN text : text[i] = VT \/ text[i] \notin ControlChars
  /\ \A i, j \in DOMAIN text :
       (i < j /\ text[i] = VT /\ text[j] = VT) => \A k \in i..j : text[k] = VT

FirstTab(text) == CHOOSE i \in DOMAIN text : text[i] = VT /\ \A j \in 1..(i - 1) : text[j] # VT

\* the number of vertical tabs in the text
TabRun(text) == Cardinality({i \in DOMAIN text : text[i] = VT})

\* the text with its run of N vertical tabs at column c replaced by N line
\* breaks and c spaces
TabRunExpanded(text) ==
  SubSeq(text, 1, FirstTab(text) - 1)
    \o [i \in 1..TabRun(text) |-> LF]
    \o [i \in 1..(FirstTab(text) - 1) |-> " "]
    \o SubSeq(text, FirstTab(text) + TabRun(text), Len(text))

\* C22: a run of N vertical tabs (every N >= 1) written at column c emits N
\* line breaks and leaves the column unchanged, the row after the breaks
\* being padded with c leading spaces before any following text.
C22_VerticalTabKeepsColumn ==
  (ref.done /\ OneTabRun(rtText)) =>
    /\ ref.S.err = "none"
    /\ Chars(ref.S.buf) = TabRunExpanded(rtText)

\* the column of prompt-start before the last call
ColumnBefore == positionInBlock(pre.S.buf, pre.S.c1)

\* the left limit of the claim for the last call: the limit recorded by the
\* preceding beforePrompt write when it came from the same stream (it ended
\* in the row the write starts in), else the column
LeftLimitRule ==
  IF pre.S.lss.set /\ pre.S.lss.id = last.stream THEN pre.S.lss.limit ELSE ColumnBefore

\* C23: a beforePrompt write of stream S erases nothing left of its left
\* limit, which is the limit recorded by the immediately preceding
\* beforePrompt write when that write came from S and landed on the same
\* row, and otherwise the current column, so that nothing that was in the
\* document before the call is erased.
C23_LeftLimitRule ==
  IsWrite(last, 0) =>
    /\ Len(removed) <= Max(0, ColumnBefore - LeftLimitRule)
    /\ removed = SubSeq(pre.S.buf, pre.S.c1 - Len(removed) + 1, pre.S.c1)

\* C24: at the start of every writeText call reachable through write the
\* column of the cursor in its row is at least the left limit passed in:
\* the assertion at the top of writeText never fails.
C24_AssertionNeverFails ==
  last.op = "write" => err # "AssertionError"

\* C25: a command echo erases nothing already in the document, whatever
\* control characters its text contains, and it clears the erase limit of the
\* beforePrompt writes: the next beforePrompt write of any stream takes the
\* current column as its left limit and removes no character of the echoed
\* command.
C25_EchoIsNotErased ==
  /\ IsWrite(last, 1) =>
       /\ removed = <<>>
       /\ err = "none" => lastStreamStart = NoStreamStart
  /\ (IsWrite(last, 0) /\ IsWrite(pre.last, 1) /\ pre.S.err = "none") => removed = <<>>

\* one step of reading ESC [ digits (; digits)* m
SGRStep(st, ch) ==
  IF st = "start" /\ ch = ESC THEN "esc"
  ELSE IF st = "esc" /\ ch = "[" THEN "open"
  ELSE IF st \in {"open", "digits"} /\ ch \in Digits THEN "digits"
  ELSE IF st = "digits" /\ ch = ";" THEN "open"
  ELSE IF st = "digits" /\ ch = "m" THEN "done"
  ELSE "bad"

RECURSIVE SGRState(_, _, _)
SGRState(t, i, st) == IF i > Len(t) THEN st ELSE SGRState(t, i + 1, SGRStep(st, t[i]))

\* t starts with ESC and is a proper prefix of a sequence ESC [ digits (; digits)* m
IsProperSGRPrefix(t) == SGRState(t, 1, "start") \in {"esc", "open", "digits"}

\* the tail is empty, a single pending CR or a pending escape prefix, and it
\* is the pending CR exactly when the fragment ends in CR (for a call that
\* got past the assertion at its top)
TailCarried(tail, fragment, raised) ==
  /\ tail = <<>> \/ tail = <<CR>> \/ IsProperSGRPrefix(tail)
  /\ raised # "AssertionError" => (tail = <<CR>> <=> fragment[Len(fragment)] = CR)

TailBefore == pre.S.writers[last.stream].unfinishedTail

\* the carried tail and the fragment, read as one text
Rejoined == TailBefore \o last.text

\* what follows the completed sequence in the fragment
AfterSequence == SubSeq(Rejoined, reFormatMatch(Rejoined).matchLen + 1, Len(Rejoined))

\* a text without its final carriage return
WithoutFinalCR(text) ==
  IF text # <<>> /\ text[Len(text)] = CR THEN SubSeq(text, 1, Len(text) - 1) ELSE text

\* the fragment of the last call completes the sequence that the same
\* stream's preceding write left pending, and plain text follows it
CompletesSequence ==
  /\ SameStreamTwice
  /\ TailPending(pre.S.writers[last.stream])
  /\ reFormatMatch(Rejoined).ok
  /\ IsPlain(WithoutFinalCR(AfterSequence))

NoBreak(ch) == ch # LF

\* C27: a proper prefix of a format sequence at the end of a fragment is
\* carried as the pending tail and written to the document as literal text
\* (the last characters before the cursor, line breaks aside); when the next
\* fragment of the same stream, with no other write in
\* between, completes the sequence, the literal prefix is removed, the style
\* change is applied and no character of the sequence is left.
C27_EscapeCompletedAcrossFragments ==
  /\ (IsWrite(last, 0) /\ err = "none" /\ TailPending(shellWriters[last.stream])) =>
       LET tail == shellWriters[last.stream].unfinishedTail
           written == SelectSeq(Chars(SubSeq(buf, 1, cursor1)), NoBreak)
       IN /\ IsProperSGRPrefix(tail)
          /\ Len(tail) <= Len(written)
          /\ SubSeq(written, Len(written) - Len(tail) + 1, Len(written)) = tail
  /\ CompletesSequence =>
       LET n == Len(TailBefore)
           W == pre.S.writers[last.stream]
       IN /\ err = "none"
          /\ Chars(removed) = TailBefore
          /\ Chars(buf) = Chars(SubSeq(pre.S.buf, 1, pre.S.c1 - n))
                             \o WithoutFinalCR(AfterSequence)
                             \o Chars(SubSeq(pre.S.buf, pre.S.c1 + 1, Len(pre.S.buf)))
          /\ shellWriters[last.stream].currentFormat
               = parseFormat(Rejoined, W.currentFormat, DefaultStyle(last.stream)).format
          /\ shellWriters[last.stream].currentFormat.weight = "Bold"

\* the length of the sequence ESC [ digits (; digits)* m that starts at
\* position i of the text, 0 when none does
SGRLength(text, i) ==
  LET ends == {j \in i..Len(text) : SGRState(SubSeq(text, i, j), 1, "start") = "done"}
  IN IF ends = {} THEN 0 ELSE (CHOOSE j \in ends : \A k \in ends : j <= k) - i + 1

\* the ESC at position i starts no sequence and, the text ending without
\* one, cannot become the start of one
Malformed(text, i) ==
  /\ text[i] = ESC
  /\ SGRLength(text, i) = 0
  /\ ~IsProperSGRPrefix(SubSeq(text, i, Len(text)))

\* the text from position i on without its sequences
RECURSIVE Literal(_, _)
Literal(text, i) ==
  IF i > Len(text) THEN <<>>
  ELSE IF SGRLength(text, i) > 0 THEN Literal(text, i + SGRLength(text, i))
  ELSE <<text[i]>> \o Literal(text, i + 1)

\* the text has a malformed ESC and no control character other than ESC
MalformedEscapeText(text) ==
  /\ \E i \in DOMAIN text : Malformed(text, i)
  /\ \A i \in DOMAIN text : text[i] = ESC \/ text[i] \notin ControlChars

\* the document and the writer of stream out after a text with a malformed
\* ESC: the ESC and what follows it are in the document, the tail does not
\* start at a malformed ESC, and without a sequence in the text no style
\* has changed
InertEscape(S, text) ==
  LET W == S.writers["out"]
  IN /\ S.err = "none"
     /\ Chars(S.buf) = Literal(text, 1)
     /\ \/ W.unfinishedTail = <<>>
        \/ /\ IsProperSGRPrefix(W.unfinishedTail)
           /\ Len(W.unfinishedTail) <= Len(text)
           /\ W.unfinishedTail
                = SubSeq(text, Len(text) - Len(W.unfinishedTail) + 1, Len(text))
     /\ Literal(text, 1) = text =>
          /\ W.currentFormat = DefaultStyle("out")
          /\ \A i \in DOMAIN S.buf : S.buf[i].fmt = DefaultStyle("out")

\* C28: an ESC that is not the start of a sequence ESC [ digits (; digits)* m
\* and cannot become one is written to the document as literal text together
\* with the characters after it, changes no style, and is not carried as a
\* pending tail.
C28_MalformedEscapeIsLiteral ==
  MalformedEscapeText(rtText) =>
    /\ ref.done => InertEscape(ref.S, rtText)
    /\ nops = Len(rtText) => InertEscape(Shell, rtText)

\* a text with a malformed ESC in front of the start of a sequence was
\* written whole and character by character
C28_Witness ==
  /\ ref.done
  /\ nops = Len(rtText)
  /\ rtText = <<ESC, "[", ";">>

\* the codes of the parameters of a sequence, from position i on; code is the
\* value of the digits read so far
RECURSIVE CodesOf(_, _, _)
CodesOf(params, i, code) ==
  IF i > Len(params) THEN <<code>>
  ELSE IF params[i] = ";" THEN <<code>> \o CodesOf(params, i + 1, 0)
  ELSE CodesOf(params, i + 1, 10 * code + DigitVal(params[i]))

SupportedCodes == {0, 1, 2, 3, 4, 22, 23, 24, 39} \cup (30..37)

\* the codes applied to a style from the left to the right, a code that is
\* not supported leaving the style as it is
RECURSIVE StyleAfter(_, _, _, _)
StyleAfter(style, codes, i, default) ==
  IF i > Len(codes) THEN style
  ELSE StyleAfter(IF codes[i] \in SupportedCodes THEN ApplyParam(style, codes[i], default)
                  ELSE style,
                  codes, i + 1, default)

\* the style the stream of the last call had before the call
StyleBefore ==
  IF pre.S.writers[last.stream].hasFormat THEN pre.S.writers[last.stream].currentFormat
  ELSE DefaultStyle(last.stream)

\* the last call wrote the sequence with these parameters and a character,
\* and returned
WroteSequence(params) ==
  /\ IsWrite(last, 0)
  /\ err = "none"
  /\ last.text = SGR(params) \o <<"a">>

\* C29: the codes of one sequence are applied left to right, a later code
\* overriding an earlier one (a sequence whose last code is 0 yields the
\* default style, ESC[0;1m yields default plus bold); a code that is not
\* supported leaves the style unchanged while the sequence is still consumed
\* and the other codes in it still apply.
C29_CodesAppliedLeftToRight ==
  \A params \in FormatParams :
    WroteSequence(params) =>
      LET codes == CodesOf(params, 1, 0)
          default == DefaultStyle(last.stream)
          style == buf[cursor1].fmt
      IN /\ Chars(buf) = Chars(SubSeq(pre.S.buf, 1, pre.S.c1)) \o <<"a">>
                            \o Chars(SubSeq(pre.S.buf, pre.S.c1 + 1, Len(pre.S.buf)))
         /\ style = StyleAfter(StyleBefore, codes, 1, default)
         /\ shellWriters[last.stream].currentFormat = style
         /\ codes[Len(codes)] = 0 => style = default
         /\ codes = <<0, 1>> => style = [default EXCEPT !.weight = "Bold"]
         /\ codes = <<31, 32>> => style.fg = COLORS[3]
         /\ codes = <<1, 5, 4>> =>
              style = [StyleBefore EXCEPT !.weight = "Bold", !.underline = TRUE]
         /\ codes = <<40>> => style = StyleBefore

\* on a stream that was light, italic, underlined and green, a sequence with
\* a code that is not supported between two others was written
C29_Witness ==
  /\ WroteSequence(<<"1", ";", "5", ";", "4">>)
  /\ StyleBefore = [weight |-> "Light", italic |-> TRUE, underline |-> TRUE, fg |-> COLORS[3]]
  /\ buf[cursor1].fmt.weight = "Bold"

\* the line cut into rows of shortLineLength characters with a line break
\* between two rows; the last row is the remainder, and there is none when
\* the length of the line is a multiple of shortLineLength
RowsOf(line) ==
  [k \in 1..(Len(line) + (Len(line) - 1) \div shortLineLength) |->
     IF k % (shortLineLength + 1) = 0 THEN LF
     ELSE line[k - k \div (shortLineLength + 1)]]

\* where the row of prompt-start began in the document before the last call
RowStartBefore == pre.S.c1 - ColumnBefore

\* the row left of prompt-start before the last call, with the text of the call
LineWritten == Chars(SubSeq(pre.S.buf, RowStartBefore + 1, pre.S.c1)) \o last.text

\* C30: while shortening is active, a line whose content exceeds 80 columns is
\* split into rows of exactly 80 characters plus one remainder row that is
\* shorter than 80 and is omitted when empty; no character is added other
\* than the inserted line breaks, none is lost, and no row is longer than 80
\* characters, also when the length of the line is a multiple of 80.  The
\* line is the row left of prompt-start with a plain text that the stream
\* writes to it, no tail of the stream pending.
C30_LongLineSplitIntoRows ==
  (/\ IsWrite(last, 0)
   /\ err = "none"
   /\ IsPlain(last.text)
   /\ TailBefore = <<>>
   /\ ShorteningAfter
   /\ Len(LineWritten) > shortLineLength)
  => Chars(SubSeq(buf, RowStartBefore + 1, cursor1)) = RowsOf(LineWritten)

\* the position of the first "m" from position i on, 0 when there is none
SequenceEnd(text, i) ==
  LET ms == {j \in i..Len(text) : text[j] = "m"}
  IN IF ms = {} THEN 0 ELSE CHOOSE j \in ms : \A k \in ms : j <= k

\* a sequence ESC [ digits (; digits)* m starts at position i
SequenceAt(text, i) ==
  /\ text[i] = ESC
  /\ SequenceEnd(text, i) > 0
  /\ SGRState(SubSeq(text, i, SequenceEnd(text, i)), 1, "start") = "done"

\* the text is characters and whole format sequences
StyledText(text) ==
  /\ \A i \in DOMAIN text : text[i] = ESC \/ text[i] \notin ControlChars
  /\ \A i \in DOMAIN text : text[i] = ESC => SequenceAt(text, i)

\* the style in force at position upto of a styled text: the sequences that
\* start before it, at the positions escs, applied in their order
RECURSIVE StyleAt(_, _, _, _, _)
StyleAt(text, escs, upto, style, default) ==
  LET before == {j \in escs : j < upto}
      j == CHOOSE e \in before : \A k \in before : e <= k
  IN IF before = {} THEN style
     ELSE StyleAt(text, before \ {j}, upto,
                  StyleAfter(style,
                             CodesOf(SubSeq(text, j + 2, SequenceEnd(text, j) - 1), 1, 0),
                             1, default),
                  default)

\* the (character, style in force) pairs of a styled text written in the
\* style given
StyledPairs(text, style, default) ==
  LET escs == {j \in DOMAIN text : text[j] = ESC}
      Shown(i) == \A j \in escs : i < j \/ i > SequenceEnd(text, j)
      shown == SelectSeq([i \in DOMAIN text |-> i], Shown)
  IN [k \in DOMAIN shown |->
        [ch |-> text[shown[k]], fmt |-> StyleAt(text, escs, shown[k], style, default)]]

NoBreakCell(c) == c.ch # LF

\* C31: line splitting preserves style: the (character, style in force)
\* pairs of the lines are the same after shortening as before it, the
\* inserted line breaks aside; every style marker keeps its position
\* relative to the characters around it.
C31_SplittingPreservesStyle ==
  (/\ IsWrite(last, 0)
   /\ err = "none"
   /\ StyledText(last.text)
   /\ TailBefore = <<>>
   /\ ShorteningAfter
   /\ Len(LineWritten) > shortLineLength)
  => SelectSeq(Render(SubSeq(buf, RowStartBefore + 1, cursor1)), NoBreakCell)
       = Render(SubSeq(pre.S.buf, RowStartBefore + 1, pre.S.c1))
           \o StyledPairs(last.text, StyleBefore, DefaultStyle(last.stream))

\* a row with two style changes was cut into rows, behind a character that
\* was in the row
C31_Witness ==
  /\ IsWrite(last, 0)
  /\ err = "none"
  /\ last.text = StyledRows
  /\ TailBefore = <<>>
  /\ ShorteningAfter
  /\ ColumnBefore > 0
  /\ buf[cursor1].fmt.weight = "Bold"
  /\ buf[cursor1].fmt.fg = COLORS[3]

\* the text with a newline for every U+2028
WithNewlines(text) == [i \in DOMAIN text |-> IF text[i] = U2028 THEN LF ELSE text[i]]

\* the shell after the characters of the text from position i on, each
\* written to stream out as a fragment of its own
RECURSIVE WrittenByCharacter(_, _, _)
WrittenByCharacter(S, text, i) ==
  IF i > Len(text) THEN S
  ELSE WrittenByCharacter(write(S, <<text[i]>>, 0, ColorOf("out"), "out"), text, i + 1)

\* the same rows and the same erasures
SameRows(S, T) ==
  /\ Chars(S.buf) = Chars(T.buf)
  /\ Chars(S.removed) = Chars(T.removed)
  /\ S.err = T.err

\* C32: line-break characters are treated uniformly: a text with U+2028 in
\* place of its newlines gives the same rows and the same erasures as the
\* text with the newlines, written in one fragment or character by
\* character, in particular for a CR immediately followed by the line break.
C32_LinebreaksTreatedUniformly ==
  /\ ref.done =>
       SameRows(ref.S, write(InitShell, WithNewlines(rtText), 0, ColorOf("out"), "out"))
  /\ nops = Len(rtText) =>
       SameRows(Shell, WrittenByCharacter(InitShell, WithNewlines(rtText), 1))

ColourCodes == {0, 39} \cup (30..37)

\* the last code of the sequence that sets or resets the foreground, -1
\* when it has none
RECURSIVE LastColourCode(_, _)
LastColourCode(codes, i) ==
  IF i = 0 THEN -1
  ELSE IF codes[i] \in ColourCodes THEN codes[i]
  ELSE LastColourCode(codes, i - 1)

\* the foreground of the character the last call wrote
ForegroundWritten == buf[cursor1].fmt.fg

\* C33: the color passed to write acts only as the default style: text
\* following a reset code (0, or 39 for the foreground) is drawn in the
\* override color, while text following an explicit foreground code 30..37
\* is drawn in the palette color until the next reset, also across later
\* write calls of the same stream.
C33_ColorOverrideIsDefault ==
  (/\ IsWrite(last, 0)
   /\ err = "none"
   /\ ColorOf(last.stream) # NoColor)
  => /\ ~pre.S.writers[last.stream].hasFormat => StyleBefore.fg = ColorOf(last.stream)
     /\ last.text = <<"a">> => ForegroundWritten = StyleBefore.fg
     /\ \A params \in FormatParams :
          last.text = SGR(params) \o <<"a">> =>
            LET code == LastColourCode(CodesOf(params, 1, 0), Len(CodesOf(params, 1, 0)))
            IN /\ code \in {0, 39} => ForegroundWritten = ColorOf(last.stream)
               /\ code \in 30..37 => ForegroundWritten = COLORS[code - 30 + 1]
               /\ code = -1 => ForegroundWritten = StyleBefore.fg
               /\ shellWriters[last.stream].currentFormat.fg = ForegroundWritten
     /\ (/\ SameStreamTwice
         /\ last.text = <<"a">>
         /\ pre.last.text = SGR(<<"3", "1">>) \o <<"a">>)
        => ForegroundWritten = COLORS[2]

\* stream err, whose color is given to write, set a palette color, wrote in
\* it, and was reset by code 39: its text is in the color given again
C33_Witness ==
  /\ IsWrite(last, 0)
  /\ err = "none"
  /\ last.stream = "err"
  /\ last.text = SGR(<<"3", "9">>) \o <<"a">>
  /\ StyleBefore.fg = COLORS[2]
  /\ ForegroundWritten = ColorOf("err")
  /\ buf[pre.S.c1].fmt.fg = COLORS[2]

\* the last call was the first beforePrompt write of its stream since the
\* stream state was reset, and it returned
FirstWriteOfStream ==
  /\ IsWrite(last, 0)
  /\ ~pre.S.writers[last.stream].exists
  /\ err = "none"

\* C34: after restart, the map of stream states is empty and the record of
\* the last stream start is cleared, so the first write of any stream after
\* the restart starts with no carried tail, the default style, shortening
\* off (the state of a writer that does not exist yet), and the current
\* column as its left limit: it erases nothing that was in the document and
\* leaves what was there in place.
C34_RestartResetsStreamState ==
  /\ last.op = "restart" =>
       /\ \A id \in StreamIds : shellWriters[id] = NoShellWriter
       /\ lastStreamStart = NoStreamStart
  /\ FirstWriteOfStream =>
       /\ removed = <<>>
       /\ SubSeq(buf, 1, pre.S.c1) = SubSeq(pre.S.buf, 1, pre.S.c1)
       /\ SubSeq(buf, cursor1 + 1, Len(buf)) = SubSeq(pre.S.buf, pre.S.c1 + 1, Len(pre.S.buf))
       /\ \A i \in (pre.S.c1 + 1)..cursor1 :
            buf[i].ch \in {"a", ESC} => buf[i].fmt = DefaultStyle(last.stream)
       /\ (\A i \in DOMAIN last.text : last.text[i] \notin _linebreaks \cup {VT}) =>
            lastStreamStart = StreamStart(last.stream, ColumnBefore)

\* a stream wrote a character and, after a restart, a backspace, which
\* erased nothing
C34_Witness ==
  /\ FirstWriteOfStream
  /\ pre.last.op = "restart"
  /\ last.text = <<BS>>
  /\ ColumnBefore > 0
  /\ pre.S.buf[pre.S.c1].src = last.stream
  /\ Chars(buf) = Chars(pre.S.buf)

\* C35 (as stated): after restart and after connection loss, prompt-start
\* and prompt-end are both re-anchored to the end of the buffer.
C35_ReanchoredAtEnd ==
  last.op \in {"restart", "_onConnectionClose"} =>
    /\ cursor1 = Len(buf)
    /\ cursor2 = Len(buf)

\* C35 (amended): after connection loss, prompt-start and prompt-end are
\* both re-anchored to the end of the buffer; restart leaves both where
\* they are.
C35_ReanchoredAfterConnectionLoss ==
  /\ last.op = "_onConnectionClose" =>
       /\ cursor1 = Len(buf)
       /\ cursor2 = Len(buf)
  /\ last.op = "restart" =>
       /\ cursor1 = pre.S.c1
       /\ cursor2 = pre.S.c2
       /\ buf = pre.S.buf

\* the connection was lost with a prompt and typed text in the edit line
C35_Witness ==
  /\ last.op = "_onConnectionClose"
  /\ pre.S.c1 < pre.S.c2
  /\ pre.S.c2 < Len(pre.S.buf)
  /\ cursor1 = Len(buf)
  /\ Len(buf) > Len(pre.S.buf)

\* C36: whenever write is not executing (after every write call, however it
\* ends), both prompt cursors have keep-position-on-insert set, so text
\* inserted at the edit line by typing never moves prompt-start or
\* prompt-end.
C36_CursorsKeepPosition ==
  /\ keep1
  /\ keep2
  /\ last.op = "keyPressEvent" =>
       /\ cursor1 = pre.S.c1
       /\ cursor2 = pre.S.c2

\* the last call was a poll that received fragments of the prompt stream,
\* the write buffer empty
PolledPrompts ==
  /\ last.op = "poll"
  /\ poller.lastPoll.sub = "prompt"
  /\ poller.lastPoll.remainderOf = "None"
  /\ err = "none"

\* the most recently received fragment of the prompt stream: the fragments
\* are of one character, and those still pending came after it
NewestReceivedPrompt ==
  poller.arrived["prompt"][Len(poller.arrived["prompt"]) - Len(poller.channels["prompt"])]

\* C37: when several prompt fragments are pending on the prompt stream, poll
\* writes only the most recently received one as the new prompt and never
\* writes an older pending prompt, for any number of pending prompt
\* fragments.
C37_OnlyNewestPromptWritten ==
  PolledPrompts =>
    /\ Chars(SubSeq(buf, cursor1 + 1, cursor2)) = <<NewestReceivedPrompt>>
    /\ ~poller.writeBuffer.set

\* the numbers of characters that can have arrived on a sub channel
ArrivedTotals == {a + b * (N + 1) : a \in 0..MaxTimerOps, b \in 0..MaxTimerOps}

\* _write_buffer holds fragments of the sub channel, the last of them the
\* n-th that arrived on it
HeldUpTo(sub, n) ==
  /\ poller.writeBuffer.set
  /\ poller.writeBuffer.sub = sub
  /\ Len(poller.written[sub]) + Len(BufferedFor(sub)) = n

\* the first n fragments that arrived on the sub channel were passed to write
WrittenUpTo(sub, n) ==
  /\ Len(poller.written[sub]) >= n
  /\ SubSeq(poller.written[sub], 1, n) = SubSeq(poller.arrived[sub], 1, n)

\* a step leaves a write buffer that is not empty as it is, or is a poll that
\* passes its first fragments to write and keeps the rest
BufferKept ==
  poller.writeBuffer.set =>
    \/ poller'.writeBuffer = poller.writeBuffer /\ poller'.written = poller.written
    \/ /\ last'.op = "poll"
       /\ poller'.lastPoll.sub = poller.writeBuffer.sub
       /\ poller'.written[poller.writeBuffer.sub] \o Join(poller'.writeBuffer.M)
            = poller.written[poller.writeBuffer.sub] \o Join(poller.writeBuffer.M)
       /\ Len(poller'.writeBuffer.M) < Len(poller.writeBuffer.M)
       /\ poller'.writeBuffer.set => poller'.writeBuffer.sub = poller.writeBuffer.sub

\* C38: every fragment received from a non-prompt stream and held in the
\* poll write buffer is eventually passed to write, provided poll keeps
\* being called; a non-empty write buffer is never dropped or overwritten by
\* a later selection, also across a restart.
C38_WriteBufferIsWritten ==
  /\ [][BufferKept]_vars
  /\ \A sub \in {"out", "err"} : \A n \in ArrivedTotals :
       HeldUpTo(sub, n) ~> WrittenUpTo(sub, n)

\* the write buffer held a fragment of out over a restart, and the next poll
\* passed it to write
C38_Witness ==
  /\ last.op = "poll"
  /\ pre.last.op = "restart"
  /\ poller.lastPoll = [sub |-> "out", n |-> 1, remainderOf |-> "out"]
  /\ poller.written["out"] = poller.arrived["out"]
  /\ Len(poller.written["out"]) = N + 1

\* C39: lastCommandStart <= promptStart holds in every reachable state: the
\* last-command position is never after prompt-start, after any sequence of
\* writes in any mode, clearScreen and clearCommand.
C39_LastCommandBeforePromptStart == lastCommandCursor <= cursor1

\* the shell with the state of every stream but the one given forgotten
OthersFresh(S, streamIdentifier) ==
  [S EXCEPT !.writers = [id \in StreamIds |->
                           IF id = streamIdentifier THEN S.writers[id] ELSE NoShellWriter]]

\* the last call made on the shell before it, with the state of every stream
\* but the one given forgotten
LastWriteAlone(streamIdentifier) ==
  write(OthersFresh(pre.S, streamIdentifier), last.text, last.prompt, ColorOf(last.stream),
        last.stream)

\* the same document, cursors, exception and erasures
SameOutcome(S, T) ==
  /\ S.buf = T.buf
  /\ S.c1 = T.c1
  /\ S.c2 = T.c2
  /\ S.lcc = T.lcc
  /\ S.err = T.err
  /\ S.removed = T.removed

\* C40: streams are independent in style and carry-over: a style change, a
\* pending CR or a pending escape prefix of stream A never changes the style
\* of, or the interpretation of, text written by a different stream B, in
\* any interleaving of their beforePrompt writes; echo and prompt writes
\* start from a fresh state on every call.  A beforePrompt write does what it
\* would do with the state of every other stream forgotten and leaves the
\* state of the others as it is; an echo or prompt write does what it would
\* do with the state of every stream forgotten and leaves all state as it is.
C40_StreamsIndependent ==
  /\ IsWrite(last, 0) =>
       /\ SameOutcome(Shell, LastWriteAlone(last.stream))
       /\ shellWriters[last.stream] = LastWriteAlone(last.stream).writers[last.stream]
       /\ \A id \in StreamIds \ {last.stream} : shellWriters[id] = pre.S.writers[id]
  /\ (IsWrite(last, 1) \/ IsWrite(last, 2)) =>
       /\ SameOutcome(Shell, LastWriteAlone("None"))
       /\ shellWriters = pre.S.writers
  /\ \A i \in DOMAIN buf :
       buf[i].src \in {"out", "echo", "prompt"} => buf[i].fmt = DefaultStyle(buf[i].src)

\* stream err has turned bold and has an escape prefix pending; stream out
\* writes a character, which is in the default style
C40_Witness ==
  /\ IsWrite(last, 0)
  /\ err = "none"
  /\ last.stream = "out"
  /\ last.text = <<"a">>
  /\ pre.S.writers["err"].currentFormat.weight = "Bold"
  /\ pre.S.writers["err"].unfinishedTail = <<ESC>>
  /\ shellWriters["err"] = pre.S.writers["err"]
  /\ buf[cursor1].src = "out"
  /\ buf[cursor1].fmt = DefaultStyle("out")
====
